---- MODULE Spec2Model ----
(***************************************************************************)
(* Matching core of firatyll/candidate-matching: the relational tables    *)
(* written by the CRUD controllers, the two Chroma collections written by *)
(* VectorMatchingService, and the service calls (upsert, syncAll, match,  *)
(* remove, initialize) with one step per awaited call on shared state.    *)
(***************************************************************************)
EXTENDS Integers, Sequences, FiniteSets, TLC

VARIABLES
    candidates,            \* prisma.candidate table: id -> row
    jobPositions,          \* prisma.jobPosition table: id -> row
    issued,                \* ids handed out by @default(uuid()), never reused
    candidatesCollection,  \* service field: TRUE when the handle is non-null
    jobsCollection,        \* service field: TRUE when the handle is non-null
    chromaCandidates,      \* Chroma collection "candidates": id -> entry
    chromaJobs,            \* Chroma collection "jobs": id -> entry
    renderedFrom,          \* history: id -> the row read by the sync that wrote its entry
    calls                  \* service calls: slot -> call in flight or last result

vars == <<candidates, jobPositions, issued, candidatesCollection, jobsCollection,
          chromaCandidates, chromaJobs, renderedFrom, calls>>

-----------------------------------------------------------------------------
(* Bounds *)

\* Service calls that may be in flight at once.
MaxCalls == 1

\* Rows that may be created in each table.
MaxCandidates == 1
MaxJobs == 1

CandIds == <<"c1", "c2", "c3">>
JobIds == <<"j1", "j2", "j3">>

Slots == 1..MaxCalls

Range(f) == {f[x] : x \in DOMAIN f}

\* An optional value (null / undefined in the source) is the empty set,
\* a present value v is {v}.
None == {}
Some(v) == {v}
TheValue(opt) == CHOOSE v \in opt : TRUE

-----------------------------------------------------------------------------
(* JavaScript helpers used by the service *)

\* Array.prototype.join
RECURSIVE Join(_, _)
Join(list, sep) ==
    IF Len(list) = 0 THEN ""
    ELSE IF Len(list) = 1 THEN list[1]
    ELSE list[1] \o sep \o Join(Tail(list), sep)

\* String.prototype.split on a one-character separator: "" gives [""]
RECURSIVE Split(_, _)
Split(str, sep) ==
    IF \E i \in 1..Len(str) : SubSeq(str, i, i) = sep
    THEN LET i == CHOOSE k \in 1..Len(str) :
                     /\ SubSeq(str, k, k) = sep
                     /\ \A m \in 1..(k - 1) : SubSeq(str, m, m) # sep
         IN  <<SubSeq(str, 1, i - 1)>> \o Split(SubSeq(str, i + 1, Len(str)), sep)
    ELSE <<str>>

\* `.filter(s => s)`
NonEmpty(str) == str # ""

\* String.prototype.toLowerCase on the strings the model uses
LowerTable ==
    [IMMEDIATE |-> "immediate", WITHIN_WEEK |-> "within_week",
     WITHIN_MONTH |-> "within_month", NOT_AVAILABLE |-> "not_available",
     ENTRY |-> "entry", MID |-> "mid", SENIOR |-> "senior", LEAD |-> "lead",
     FULL_TIME |-> "full_time", PART_TIME |-> "part_time",
     CONTRACT |-> "contract", INTERNSHIP |-> "internship"]

ToLowerCase(s) == IF s \in DOMAIN LowerTable THEN LowerTable[s] ELSE s

\* String.prototype.includes
Includes(s, sub) ==
    \E i \in 1..(Len(s) - Len(sub) + 1) : SubSeq(s, i, i + Len(sub) - 1) = sub

\* `x || 0` on an optional number: null, undefined and 0 all give 0
OrZero(opt) == IF opt = None \/ opt = Some(0) THEN 0 ELSE TheValue(opt)

\* An `x || undefined` that keeps 0.
OrUndefinedKeepingZero(opt) == opt

\* `x || undefined` on an optional number: 0 becomes undefined
OrUndefined(opt) == IF opt = None \/ opt = Some(0) THEN None ELSE opt

\* truthiness of an optional string: undefined and "" are falsy
TruthyString(opt) == opt # None /\ opt # Some("")

-----------------------------------------------------------------------------
(* Text canonicalizer and metadata extraction *)

\* A text that marks the candidates already present in the collection.
createCandidateTextMarking(c) ==
    c.firstName \o " " \o c.lastName
      \o " - Skills: " \o Join(c.skills, ", ")
      \o " - Experience: " \o ToString(c.experience) \o " years"
      \o " - Location: " \o c.location
      \o " - Availability: " \o c.availability
      \o (IF c.id \in DOMAIN chromaCandidates THEN " - Resynced" ELSE "")

createCandidateText(c) ==
    c.firstName \o " " \o c.lastName
      \o " - Skills: " \o Join(c.skills, ", ")
      \o " - Experience: " \o ToString(c.experience) \o " years"
      \o " - Location: " \o c.location
      \o " - Availability: " \o c.availability

createJobText(j) ==
    j.title \o " at " \o j.company \o " - " \o j.description
      \o " - Required skills: " \o Join(j.requiredSkills, ", ")
      \o " - Preferred skills: " \o Join(j.preferredSkills, ", ")
      \o " - Experience level: " \o j.experienceLevel
      \o " - Location: " \o j.location
      \o " - " \o (IF j.remoteOk THEN "Remote work available" ELSE "On-site work")
      \o " - Employment type: " \o j.employmentType

\* The CandidateVector object built from a row (combinedText filled in after).
CandidateVectorOf(id, row) ==
    [id |-> id,
     firstName |-> row.firstName,
     lastName |-> row.lastName,
     email |-> row.email,
     skills |-> row.skills,
     experience |-> row.experience,
     location |-> row.location,
     availability |-> ToLowerCase(row.availability),
     salaryExpectation |-> OrUndefined(row.salary_expectation)]

\* A metadata that keeps the location of the entry the candidate already has.
CandidateMetadataKeepingLocation(row) ==
    LET old == {id \in DOMAIN chromaCandidates :
                   chromaCandidates[id].metadata.email = row.email}
    IN  [firstName |-> row.firstName,
         lastName |-> row.lastName,
         email |-> row.email,
         experience |-> row.experience,
         location |-> IF old = {} THEN row.location
                      ELSE chromaCandidates[CHOOSE id \in old : TRUE].metadata.location,
         availability |-> ToLowerCase(row.availability),
         skillsCount |-> Len(row.skills),
         salaryExpectation |-> OrZero(row.salary_expectation),
         skills |-> Join(row.skills, ",")]

CandidateMetadata(row) ==
    [firstName |-> row.firstName,
     lastName |-> row.lastName,
     email |-> row.email,
     experience |-> row.experience,
     location |-> row.location,
     availability |-> ToLowerCase(row.availability),
     skillsCount |-> Len(row.skills),
     salaryExpectation |-> OrZero(row.salary_expectation),
     skills |-> Join(row.skills, ",")]

\* `job.preferred_skills || []`
PreferredOrEmpty(opt) == IF opt = None THEN <<>> ELSE TheValue(opt)

JobVectorOf(id, row) ==
    [id |-> id,
     title |-> row.title,
     company |-> row.company,
     description |-> row.description,
     requiredSkills |-> row.required_skills,
     preferredSkills |-> PreferredOrEmpty(row.preferred_skills),
     experienceLevel |-> ToLowerCase(row.experience_level),
     location |-> row.location,
     remoteOk |-> row.remote_ok,
     salaryMin |-> OrUndefined(row.salary_min),
     salaryMax |-> OrUndefined(row.salary_max),
     employmentType |-> ToLowerCase(row.employment_type)]

JobMetadata(row) ==
    [title |-> row.title,
     company |-> row.company,
     experienceLevel |-> ToLowerCase(row.experience_level),
     location |-> row.location,
     remoteOk |-> row.remote_ok,
     employmentType |-> ToLowerCase(row.employment_type),
     salaryMin |-> OrZero(row.salary_min),
     salaryMax |-> OrZero(row.salary_max),
     requiredSkillsCount |-> Len(row.required_skills),
     preferredSkillsCount |-> Len(PreferredOrEmpty(row.preferred_skills)),
     requiredSkills |-> Join(row.required_skills, ","),
     preferredSkills |-> Join(PreferredOrEmpty(row.preferred_skills), ",")]

-----------------------------------------------------------------------------
(* Embedding model and vector index *)

\* A deterministic stand-in for text-embedding-3-small, whose vectors have
\* length 1: one of the four unit vectors of the integer plane, fixed by the
\* text.
UnitVectors == << <<1, 0>>, <<0, 1>>, <<-1, 0>>, <<0, -1>> >>

Embedding(text) == UnitVectors[(Len(text) % Len(UnitVectors)) + 1]

\* Chroma's default space (no "hnsw:space" is given to getOrCreateCollection)
\* is squared L2.
Distance(a, b) ==
    (a[1] - b[1]) * (a[1] - b[1]) + (a[2] - b[2]) * (a[2] - b[2])

\* An upsert that replaces the collection by the one entry.
ChromaUpsertAlone(coll, id, embedding, metadata, document) ==
    [x \in {id} |->
        [embedding |-> embedding, metadata |-> metadata, document |-> document]]

\* An upsert that keeps the metadata of an entry the collection already holds.
ChromaUpsertMerging(coll, id, embedding, metadata, document) ==
    [x \in DOMAIN coll \cup {id} |->
        IF x = id
        THEN [embedding |-> embedding,
              metadata |-> IF id \in DOMAIN coll THEN coll[id].metadata ELSE metadata,
              document |-> document]
        ELSE coll[x]]

\* collection.upsert of one id: the whole entry is replaced.
ChromaUpsert(coll, id, embedding, metadata, document) ==
    [x \in DOMAIN coll \cup {id} |->
        IF x = id
        THEN [embedding |-> embedding, metadata |-> metadata, document |-> document]
        ELSE coll[x]]

\* A delete that leaves the collection as it is.
ChromaDeleteNothing(coll, id) == coll

\* A delete that empties the collection when it does not hold the id.
ChromaDeleteOrClear(coll, id) ==
    IF id \in DOMAIN coll THEN [x \in DOMAIN coll \ {id} |-> coll[x]] ELSE <<>>

\* collection.delete of one id: no error when the id is absent.
ChromaDelete(coll, id) == [x \in DOMAIN coll \ {id} |-> coll[x]]

\* A get that answers with the document of whatever entry it finds.
ChromaGetDocumentsOfAny(coll, id) ==
    IF DOMAIN coll = {} THEN <<>>
    ELSE <<coll[CHOOSE x \in DOMAIN coll : x # id \/ DOMAIN coll = {id}].document>>

\* collection.get({ids: [id]}).documents
ChromaGetDocuments(coll, id) ==
    IF id \in DOMAIN coll THEN <<coll[id].document>> ELSE <<>>


\* A where clause is a map from metadata field to one predicate; assigning a
\* field that is already present replaces its predicate (JS object assignment).
EmptyWhere == [k \in {} |-> [op |-> "$eq", value |-> 0]]

Put(where, field, op, value) ==
    [k \in DOMAIN where \cup {field} |->
        IF k = field THEN [op |-> op, value |-> value] ELSE where[k]]

\* NaN, what parseInt gives a string that does not start with a number. It is
\* a number that no metadata value, bound or limit of the model takes.
NaN == -(2^30)

Digits == "0123456789"
IsDigit(ch) == \E i \in 1..Len(Digits) : SubSeq(Digits, i, i) = ch
DigitValue(ch) == (CHOOSE i \in 1..Len(Digits) : SubSeq(Digits, i, i) = ch) - 1

RECURSIVE SkipSpaces(_, _)
SkipSpaces(str, i) ==
    IF i <= Len(str) /\ SubSeq(str, i, i) = " " THEN SkipSpaces(str, i + 1) ELSE i

RECURSIVE ParseDigits(_, _, _)
ParseDigits(str, i, acc) ==
    IF i <= Len(str) /\ IsDigit(SubSeq(str, i, i))
    THEN ParseDigits(str, i + 1, 10 * acc + DigitValue(SubSeq(str, i, i)))
    ELSE acc

\* parseInt(str): leading blanks, an optional sign, then the longest run of
\* digits; whatever follows is ignored; NaN when there is no digit.
ParseInt(str) ==
    LET b == SkipSpaces(str, 1)
        signed == b <= Len(str) /\ SubSeq(str, b, b) \in {"-", "+"}
        negative == signed /\ SubSeq(str, b, b) = "-"
        d == IF signed THEN b + 1 ELSE b
    IN  IF d <= Len(str) /\ IsDigit(SubSeq(str, d, d))
        THEN (IF negative THEN -1 ELSE 1) * ParseDigits(str, d, 0)
        ELSE NaN

\* One predicate of a where clause on one metadata value. An operand that is
\* NaN is not a number the index can compare with: no value satisfies it.
Holds(v, p) ==
    CASE p.op = "$eq" -> v = p.value
      [] p.op = "$gte" -> p.value # NaN /\ v >= p.value
      [] p.op = "$lte" -> p.value # NaN /\ v <= p.value

\* The index keeps an entry when its metadata satisfies every predicate.
MatchesWhere(metadata, where) ==
    \A k \in DOMAIN where : Holds(metadata[k], where[k])

AllIds == CandIds \o JobIds
Rank(id) == CHOOSE i \in DOMAIN AllIds : AllIds[i] = id

\* Nearer first; equal distances in a fixed order of the ids.
Nearer(coll, q, a, b) ==
    LET da == Distance(q, coll[a].embedding)
        db == Distance(q, coll[b].embedding)
    IN  da < db \/ (da = db /\ Rank(a) < Rank(b))

RECURSIVE SortByDistance(_, _, _)
SortByDistance(coll, q, ids) ==
    IF ids = {} THEN <<>>
    ELSE LET first == CHOOSE a \in ids : \A b \in ids \ {a} : Nearer(coll, q, a, b)
         IN  <<first>> \o SortByDistance(coll, q, ids \ {first})

\* collection.query: up to nResults entries that satisfy the where clause,
\* by ascending distance to the query embedding.
ChromaQuery(coll, q, nResults, where) ==
    LET hits == {id \in DOMAIN coll : MatchesWhere(coll[id].metadata, where)}
        sorted == SortByDistance(coll, q, hits)
        n == IF nResults < Len(sorted) THEN nResults ELSE Len(sorted)
    IN  [i \in 1..n |->
            [id |-> sorted[i],
             metadata |-> coll[sorted[i]].metadata,
             distance |-> Distance(q, coll[sorted[i]].embedding)]]

-----------------------------------------------------------------------------
(* Match query engine: filters to where clause, results to matches *)

NoJobFilters ==
    [location |-> None, remoteOk |-> None, experienceLevel |-> None,
     employmentType |-> None, salaryMin |-> None, salaryMax |-> None]

NoCandidateFilters ==
    [location |-> None, availability |-> None, minExperience |-> None,
     maxExperience |-> None, maxSalaryExpectation |-> None]

\* A where clause whose salary predicates point the other way.
JobWhereClauseInverted(filters) ==
    LET w1 == IF TruthyString(filters.location)
              THEN Put(EmptyWhere, "location", "$eq", TheValue(filters.location))
              ELSE EmptyWhere
        w2 == IF filters.remoteOk # None
              THEN Put(w1, "remoteOk", "$eq", TheValue(filters.remoteOk))
              ELSE w1
        w3 == IF TruthyString(filters.experienceLevel)
              THEN Put(w2, "experienceLevel", "$eq",
                       ToLowerCase(TheValue(filters.experienceLevel)))
              ELSE w2
        w4 == IF TruthyString(filters.employmentType)
              THEN Put(w3, "employmentType", "$eq",
                       ToLowerCase(TheValue(filters.employmentType)))
              ELSE w3
        w5 == IF filters.salaryMin # None
              THEN Put(w4, "salaryMax", "$lte", TheValue(filters.salaryMin))
              ELSE w4
        w6 == IF filters.salaryMax # None
              THEN Put(w5, "salaryMin", "$gte", TheValue(filters.salaryMax))
              ELSE w5
    IN  w6

\* findMatchingJobs: "Build where clause for filtering"
JobWhereClause(filters) ==
    LET w1 == IF TruthyString(filters.location)
              THEN Put(EmptyWhere, "location", "$eq", TheValue(filters.location))
              ELSE EmptyWhere
        w2 == IF filters.remoteOk # None
              THEN Put(w1, "remoteOk", "$eq", TheValue(filters.remoteOk))
              ELSE w1
        w3 == IF TruthyString(filters.experienceLevel)
              THEN Put(w2, "experienceLevel", "$eq",
                       ToLowerCase(TheValue(filters.experienceLevel)))
              ELSE w2
        w4 == IF TruthyString(filters.employmentType)
              THEN Put(w3, "employmentType", "$eq",
                       ToLowerCase(TheValue(filters.employmentType)))
              ELSE w3
        w5 == IF filters.salaryMin # None
              THEN Put(w4, "salaryMax", "$gte", TheValue(filters.salaryMin))
              ELSE w4
        w6 == IF filters.salaryMax # None
              THEN Put(w5, "salaryMin", "$lte", TheValue(filters.salaryMax))
              ELSE w5
    IN  w6

\* findMatchingCandidates: "Build where clause for filtering"
CandidateWhereClause(filters) ==
    LET w1 == IF TruthyString(filters.location)
              THEN Put(EmptyWhere, "location", "$eq", TheValue(filters.location))
              ELSE EmptyWhere
        w2 == IF TruthyString(filters.availability)
              THEN Put(w1, "availability", "$eq",
                       ToLowerCase(TheValue(filters.availability)))
              ELSE w1
        w3 == IF filters.minExperience # None
              THEN Put(w2, "experience", "$gte", TheValue(filters.minExperience))
              ELSE w2
        w4 == IF filters.maxExperience # None
              THEN Put(w3, "experience", "$lte", TheValue(filters.maxExperience))
              ELSE w3
        w5 == IF filters.maxSalaryExpectation # None
              THEN Put(w4, "salaryExpectation", "$lte",
                       TheValue(filters.maxSalaryExpectation))
              ELSE w4
    IN  w5

\* What collection.query hands back: metadatas[0][i] and distances[0][i] are
\* typed `... | null`; gaps names the positions where each comes back null.
NoGaps == [noMetadata |-> {}, noDistance |-> {}]

Gaps(n) == [noMetadata : SUBSET (1..n), noDistance : SUBSET (1..n)]

Answer(queryResult, gaps) ==
    [i \in DOMAIN queryResult |->
        [id |-> queryResult[i].id,
         metadata |-> IF i \in gaps.noMetadata THEN None
                      ELSE Some(queryResult[i].metadata),
         distance |-> IF i \in gaps.noDistance THEN None
                      ELSE Some(queryResult[i].distance)]]

\* `if (metadata)`
HasMetadata(entry) == entry.metadata # None

\* "Process results": one match per returned entry that has metadata;
\* score is `distance !== null ? 1 - distance : 0`, distance is `distance || 0`.
Matches(answer) ==
    LET kept == SelectSeq(answer, HasMetadata)
    IN  [i \in DOMAIN kept |->
            [id |-> kept[i].id,
             score |-> IF kept[i].distance # None
                       THEN 1 - TheValue(kept[i].distance) ELSE 0,
             metadata |-> TheValue(kept[i].metadata),
             distance |-> OrZero(kept[i].distance)]]

\* findMatchingJobs: the JobVector rebuilt from the metadata of a result
JobVectorOfMetadata(id, metadata) ==
    [id |-> id,
     title |-> metadata.title,
     company |-> metadata.company,
     description |-> "",
     requiredSkills |-> Split(metadata.requiredSkills, ","),
     preferredSkills |-> SelectSeq(Split(metadata.preferredSkills, ","), NonEmpty),
     experienceLevel |-> metadata.experienceLevel,
     location |-> metadata.location,
     remoteOk |-> metadata.remoteOk,
     salaryMin |-> OrUndefined(Some(metadata.salaryMin)),
     salaryMax |-> OrUndefined(Some(metadata.salaryMax)),
     employmentType |-> metadata.employmentType,
     combinedText |-> ""]

\* findMatchingCandidates: the CandidateVector rebuilt from the metadata of a
\* result
CandidateVectorOfMetadata(id, metadata) ==
    [id |-> id,
     firstName |-> metadata.firstName,
     lastName |-> metadata.lastName,
     email |-> metadata.email,
     skills |-> Split(metadata.skills, ","),
     experience |-> metadata.experience,
     location |-> metadata.location,
     availability |-> metadata.availability,
     salaryExpectation |-> OrUndefined(Some(metadata.salaryExpectation)),
     combinedText |-> ""]

\* The matches findMatchingJobs returns: each with its `job`
JobMatches(answer) ==
    LET matches == Matches(answer)
    IN  [i \in DOMAIN matches |->
            [id |-> matches[i].id, score |-> matches[i].score,
             metadata |-> matches[i].metadata, distance |-> matches[i].distance,
             job |-> JobVectorOfMetadata(matches[i].id, matches[i].metadata)]]

\* The matches findMatchingCandidates returns: each with its `candidate`
CandidateMatches(answer) ==
    LET matches == Matches(answer)
    IN  [i \in DOMAIN matches |->
            [id |-> matches[i].id, score |-> matches[i].score,
             metadata |-> matches[i].metadata, distance |-> matches[i].distance,
             candidate |-> CandidateVectorOfMetadata(matches[i].id,
                                                     matches[i].metadata)]]

-----------------------------------------------------------------------------
(* Relational rows the CRUD endpoints may write *)

CandidateContents ==
    { [skills |-> <<"Go", "SQL">>, experience |-> 5, location |-> "Istanbul",
       availability |-> "IMMEDIATE", salary_expectation |-> Some(80000)],
      [skills |-> <<>>, experience |-> 2, location |-> "Ankara",
       availability |-> "WITHIN_MONTH", salary_expectation |-> None] }

\* email is unique per candidate
CandidateRows(id) ==
    { [firstName |-> "Ada", lastName |-> "Kaya", email |-> id \o "@example.com",
       skills |-> c.skills, experience |-> c.experience, location |-> c.location,
       availability |-> c.availability,
       salary_expectation |-> c.salary_expectation] : c \in CandidateContents }

JobStatuses == {"ACTIVE", "INACTIVE", "FILLED"}

JobContents ==
    { [required_skills |-> <<"Go">>, preferred_skills |-> Some(<<"SQL">>),
       experience_level |-> "MID", location |-> "Istanbul", remote_ok |-> TRUE,
       salary_min |-> Some(60000), salary_max |-> Some(90000),
       employment_type |-> "FULL_TIME"] }

JobRows ==
    { [title |-> "Backend Developer", company |-> "Acme",
       description |-> "Builds the matching API",
       required_skills |-> j.required_skills,
       preferred_skills |-> j.preferred_skills,
       experience_level |-> j.experience_level, location |-> j.location,
       remote_ok |-> j.remote_ok, salary_min |-> j.salary_min,
       salary_max |-> j.salary_max, employment_type |-> j.employment_type,
       status |-> st] : j \in JobContents, st \in JobStatuses }

\* The next id uuid() hands out: the first of the list not issued yet.
NextId(ids) ==
    IF \E i \in DOMAIN ids : ids[i] \notin issued
    THEN Some(ids[CHOOSE i \in DOMAIN ids :
                    /\ ids[i] \notin issued
                    /\ \A k \in 1..(i - 1) : ids[k] \in issued])
    ELSE None

-----------------------------------------------------------------------------
(* Calls *)

Idle == [op |-> "none", pc |-> "idle", error |-> ""]

Free(s) == calls[s].pc \in {"idle", "done"}

\* A returned call stays in its slot for one step: the response is handed to
\* the caller, and the slot is idle again at the next step of anything.
Cleared == [t \in DOMAIN calls |-> IF calls[t].pc = "done" THEN Idle ELSE calls[t]]

Settle(s, call) == [Cleared EXCEPT ![s] = call]

\* Errors thrown by the external services
EmbeddingError == "OpenAI: embeddings request failed"
ChromaError == "Chroma: request failed"

\* A call that has returned: error is "" on success, else the thrown message.
Done(op, id, error, log) ==
    [op |-> op, pc |-> "done", id |-> id, error |-> error, log |-> log]

\* An upsert call that has returned after writing: the row it had read, the
\* entry it replaced and the row that entry had been rendered from (if any).
Upserted(c, log, coll) ==
    [op |-> c.op, pc |-> "done", id |-> c.id, error |-> "", log |-> log,
     row |-> c.pending.row,
     before |-> IF c.id \in DOMAIN coll THEN Some(coll[c.id]) ELSE None,
     beforeRow |-> IF c.id \in DOMAIN renderedFrom
                   THEN Some(renderedFrom[c.id]) ELSE None]

\* A remove call that has returned after the delete: whether the collection
\* held an entry of the id before.
Removed(op, id, coll) ==
    [op |-> op, pc |-> "done", id |-> id, error |-> "", log |-> <<"chroma.delete">>,
     existed |-> id \in DOMAIN coll]

\* Messages of the errors the service throws
NotInStoreMessage(kind, id) == kind \o " with id " \o id \o " not found"
NotInIndexMessageAsNotFound(kind, id) == kind \o " with id " \o id \o " not found"
NotInIndexMessage(kind, id) == kind \o " " \o id \o " not found in vector database"

\* matching controller, catch block of the two match handlers: the HTTP
\* status and error code answered for a thrown message
MatchErrorResponse(kind, message) ==
    IF Includes(message, "not found in vector database")
    THEN [status |-> 404, error |-> kind \o "_NOT_SYNCED"]
    ELSE [status |-> 500, error |-> "Internal Server Error"]

\* An upsertCandidate that goes on with a vector of zeros when the embedding
\* request fails.
PrepareCandidateZeroVector(id, embedOk) ==
    IF ~candidatesCollection
    THEN [error |-> "Candidates collection not initialized", log |-> <<>>]
    ELSE IF id \notin DOMAIN candidates
    THEN [error |-> NotInStoreMessage("Candidate", id),
          log |-> <<"prisma">>]
    ELSE LET candidate == candidates[id]
             combinedText == createCandidateText(CandidateVectorOf(id, candidate))
         IN  [error |-> "", log |-> <<"prisma", "openai">>,
              row |-> candidate,
              embedding |-> IF embedOk THEN Embedding(combinedText) ELSE <<0, 0>>,
              metadata |-> CandidateMetadata(candidate),
              document |-> combinedText]

\* An upsertCandidate that requests the embedding before it looks at what
\* findUnique returned.
PrepareCandidateEmbeddingFirst(id, embedOk) ==
    IF ~candidatesCollection
    THEN [error |-> "Candidates collection not initialized", log |-> <<>>]
    ELSE IF id \notin DOMAIN candidates
    THEN [error |-> NotInStoreMessage("Candidate", id),
          log |-> <<"prisma", "openai">>]
    ELSE LET candidate == candidates[id]
             combinedText == createCandidateText(CandidateVectorOf(id, candidate))
         IN  IF ~embedOk
             THEN [error |-> EmbeddingError, log |-> <<"prisma", "openai">>]
             ELSE [error |-> "", log |-> <<"prisma", "openai">>,
                   row |-> candidate,
                   embedding |-> Embedding(combinedText),
                   metadata |-> CandidateMetadata(candidate),
                   document |-> combinedText]

\* upsertCandidate up to its upsert: handle check, findUnique, text,
\* embedding, metadata. embedOk is whether the embedding request succeeds.
PrepareCandidate(id, embedOk) ==
    IF ~candidatesCollection
    THEN [error |-> "Candidates collection not initialized", log |-> <<>>]
    ELSE IF id \notin DOMAIN candidates
    THEN [error |-> NotInStoreMessage("Candidate", id),
          log |-> <<"prisma">>]
    ELSE LET candidate == candidates[id]
             combinedText == createCandidateText(CandidateVectorOf(id, candidate))
         IN  IF ~embedOk
             THEN [error |-> EmbeddingError, log |-> <<"prisma", "openai">>]
             ELSE [error |-> "", log |-> <<"prisma", "openai">>,
                   row |-> candidate,
                   embedding |-> Embedding(combinedText),
                   metadata |-> CandidateMetadata(candidate),
                   document |-> combinedText]

\* An upsertJob that embeds a text other than the document it stores.
PrepareJobOtherText(id, embedOk) ==
    IF ~jobsCollection
    THEN [error |-> "Jobs collection not initialized", log |-> <<>>]
    ELSE IF id \notin DOMAIN jobPositions
    THEN [error |-> NotInStoreMessage("Job", id), log |-> <<"prisma">>]
    ELSE LET job == jobPositions[id]
             combinedText == createJobText(JobVectorOf(id, job))
         IN  IF ~embedOk
             THEN [error |-> EmbeddingError, log |-> <<"prisma", "openai">>]
             ELSE [error |-> "", log |-> <<"prisma", "openai">>,
                   row |-> job,
                   embedding |-> Embedding(combinedText \o " "),
                   metadata |-> JobMetadata(job),
                   document |-> combinedText]

\* upsertJob up to its upsert.
PrepareJob(id, embedOk) ==
    IF ~jobsCollection
    THEN [error |-> "Jobs collection not initialized", log |-> <<>>]
    ELSE IF id \notin DOMAIN jobPositions
    THEN [error |-> NotInStoreMessage("Job", id), log |-> <<"prisma">>]
    ELSE LET job == jobPositions[id]
             combinedText == createJobText(JobVectorOf(id, job))
         IN  IF ~embedOk
             THEN [error |-> EmbeddingError, log |-> <<"prisma", "openai">>]
             ELSE [error |-> "", log |-> <<"prisma", "openai">>,
                   row |-> job,
                   embedding |-> Embedding(combinedText),
                   metadata |-> JobMetadata(job),
                   document |-> combinedText]

-----------------------------------------------------------------------------
(* State after construction: empty tables, empty collections, null handles *)

Init ==
    /\ candidates = <<>>
    /\ jobPositions = <<>>
    /\ issued = {}
    /\ candidatesCollection = FALSE
    /\ jobsCollection = FALSE
    /\ chromaCandidates = <<>>
    /\ chromaJobs = <<>>
    /\ renderedFrom = <<>>
    /\ calls = [s \in Slots |-> Idle]

store == <<candidates, jobPositions, issued>>
handles == <<candidatesCollection, jobsCollection>>
index == <<chromaCandidates, chromaJobs, renderedFrom>>

\* ids a client may name in a call: the rows that can exist and one more
FirstIds(ids, n) == {ids[i] : i \in 1..(IF n < Len(ids) THEN n ELSE Len(ids))}
CandidateCallIds == FirstIds(CandIds, MaxCandidates + 1)
JobCallIds == FirstIds(JobIds, MaxJobs + 1)

Remember(id, row) ==
    [x \in DOMAIN renderedFrom \cup {id} |-> IF x = id THEN row ELSE renderedFrom[x]]

Forget(id) == [x \in DOMAIN renderedFrom \ {id} |-> renderedFrom[x]]

-----------------------------------------------------------------------------
(* CRUD controllers: the only writers of the relational tables *)

CreateCandidate ==
    /\ Cardinality(issued \cap Range(CandIds)) < MaxCandidates
    /\ NextId(CandIds) # None
    /\ LET id == TheValue(NextId(CandIds)) IN
       \E row \in CandidateRows(id) :
          /\ candidates' = [x \in DOMAIN candidates \cup {id} |->
                               IF x = id THEN row ELSE candidates[x]]
          /\ issued' = issued \cup {id}
    /\ UNCHANGED <<jobPositions, handles, index>>
    /\ calls' = Cleared

UpdateCandidate ==
    /\ \E id \in DOMAIN candidates : \E row \in CandidateRows(id) :
          /\ row # candidates[id]
          /\ candidates' = [candidates EXCEPT ![id] = row]
    /\ UNCHANGED <<jobPositions, issued, handles, index>>
    /\ calls' = Cleared

DeleteCandidate ==
    /\ \E id \in DOMAIN candidates :
          candidates' = [x \in DOMAIN candidates \ {id} |-> candidates[x]]
    /\ UNCHANGED <<jobPositions, issued, handles, index>>
    /\ calls' = Cleared

CreateJobPosition ==
    /\ Cardinality(issued \cap Range(JobIds)) < MaxJobs
    /\ NextId(JobIds) # None
    /\ LET id == TheValue(NextId(JobIds)) IN
       \E row \in JobRows :
          /\ jobPositions' = [x \in DOMAIN jobPositions \cup {id} |->
                                 IF x = id THEN row ELSE jobPositions[x]]
          /\ issued' = issued \cup {id}
    /\ UNCHANGED <<candidates, handles, index>>
    /\ calls' = Cleared

UpdateJobPosition ==
    /\ \E id \in DOMAIN jobPositions : \E row \in JobRows :
          /\ row # jobPositions[id]
          /\ jobPositions' = [jobPositions EXCEPT ![id] = row]
    /\ UNCHANGED <<candidates, issued, handles, index>>
    /\ calls' = Cleared

DeleteJobPosition ==
    /\ \E id \in DOMAIN jobPositions :
          jobPositions' = [x \in DOMAIN jobPositions \ {id} |-> jobPositions[x]]
    /\ UNCHANGED <<candidates, issued, handles, index>>
    /\ calls' = Cleared

-----------------------------------------------------------------------------
(* VectorMatchingService *)

\* initialize: two getOrCreateCollection requests in order; n of them succeed
\* before one throws (n = 2: none throws).
Initialize ==
    /\ \E n \in 0..2 :
          /\ candidatesCollection' = (candidatesCollection \/ n >= 1)
          /\ jobsCollection' = (jobsCollection \/ n = 2)
    /\ UNCHANGED <<store, index>>
    /\ calls' = Cleared

\* upsertCandidate(id), from the call to the await of collection.upsert
UpsertCandidateCall(s, id) ==
    /\ Free(s)
    /\ \E embedOk \in BOOLEAN :
          LET p == PrepareCandidate(id, embedOk) IN
          calls' = Settle(s,
                      IF p.error # ""
                      THEN Done("upsertCandidate", id, p.error, p.log)
                      ELSE [op |-> "upsertCandidate", pc |-> "upsert", id |-> id,
                            error |-> "", log |-> p.log, pending |-> p])
    /\ UNCHANGED <<store, handles, index>>

\* collection.upsert answers: the entry is written, or the request throws
UpsertCandidateWrite(s) ==
    /\ calls[s].op = "upsertCandidate" /\ calls[s].pc = "upsert"
    /\ LET c == calls[s]
           log == Append(c.log, "chroma.upsert")
       IN  \E ok \in BOOLEAN :
              IF ok
              THEN /\ chromaCandidates' =
                        ChromaUpsert(chromaCandidates, c.id, c.pending.embedding,
                                     c.pending.metadata, c.pending.document)
                   /\ renderedFrom' = Remember(c.id, c.pending.row)
                   /\ calls' = Settle(s, Upserted(c, log, chromaCandidates))
              ELSE /\ UNCHANGED <<chromaCandidates, renderedFrom>>
                   /\ calls' = Settle(s, Done(c.op, c.id, ChromaError, log))
    /\ UNCHANGED <<store, handles, chromaJobs>>

UpsertJobCall(s, id) ==
    /\ Free(s)
    /\ \E embedOk \in BOOLEAN :
          LET p == PrepareJob(id, embedOk) IN
          calls' = Settle(s,
                      IF p.error # ""
                      THEN Done("upsertJob", id, p.error, p.log)
                      ELSE [op |-> "upsertJob", pc |-> "upsert", id |-> id,
                            error |-> "", log |-> p.log, pending |-> p])
    /\ UNCHANGED <<store, handles, index>>

UpsertJobWrite(s) ==
    /\ calls[s].op = "upsertJob" /\ calls[s].pc = "upsert"
    /\ LET c == calls[s]
           log == Append(c.log, "chroma.upsert")
       IN  \E ok \in BOOLEAN :
              IF ok
              THEN /\ chromaJobs' =
                        ChromaUpsert(chromaJobs, c.id, c.pending.embedding,
                                     c.pending.metadata, c.pending.document)
                   /\ renderedFrom' = Remember(c.id, c.pending.row)
                   /\ calls' = Settle(s, Upserted(c, log, chromaJobs))
              ELSE /\ UNCHANGED <<chromaJobs, renderedFrom>>
                   /\ calls' = Settle(s, Done(c.op, c.id, ChromaError, log))
    /\ UNCHANGED <<store, handles, chromaCandidates>>

\* findMany without orderBy: the rows come in an order the database picks
Orders(ids) ==
    {o \in [1..Cardinality(ids) -> ids] : \A i, k \in DOMAIN o : i # k => o[i] # o[k]}

\* prisma.candidate.findMany({select: {id}})
EnumerateCandidates == DOMAIN candidates

\* prisma.jobPosition.findMany({where: {status: 'ACTIVE'}, select: {id}})
EnumerateJobs == {id \in DOMAIN jobPositions : jobPositions[id].status = "ACTIVE"}

\* A syncAll that has returned: what findMany listed, the ids this batch has
\* upserted, and the id and message of the throw that ended it (if any).
SyncAllDone(op, enumerated, upserted, id, error, log) ==
    [op |-> op, pc |-> "done", id |-> id, error |-> error, log |-> log,
     enumerated |-> enumerated, upserted |-> upserted]

\* syncAllCandidates: findMany, then the loop
SyncAllCandidatesCall(s) ==
    /\ Free(s)
    /\ \E order \in Orders(EnumerateCandidates) :
          calls' = Settle(s,
                      IF order = <<>>
                      THEN SyncAllDone("syncAllCandidates", <<>>, {}, "", "", <<"prisma">>)
                      ELSE [op |-> "syncAllCandidates", pc |-> "loop", id |-> "",
                            error |-> "", log |-> <<"prisma">>,
                            enumerated |-> order, rest |-> order, upserted |-> {}])
    /\ UNCHANGED <<store, handles, index>>

\* one iteration up to the await of collection.upsert; a throw leaves the loop
SyncAllCandidatesLoop(s) ==
    /\ calls[s].op = "syncAllCandidates" /\ calls[s].pc = "loop"
    /\ LET c == calls[s]
           id == Head(c.rest)
       IN  \E embedOk \in BOOLEAN :
              LET p == PrepareCandidate(id, embedOk) IN
              calls' = Settle(s,
                          IF p.error # ""
                          THEN SyncAllDone(c.op, c.enumerated, c.upserted, id, p.error,
                                           c.log \o p.log)
                          ELSE [c EXCEPT !.pc = "upsert", !.id = id,
                                         !.log = c.log \o p.log] @@ [pending |-> p])
    /\ UNCHANGED <<store, handles, index>>

SyncAllCandidatesWrite(s) ==
    /\ calls[s].op = "syncAllCandidates" /\ calls[s].pc = "upsert"
    /\ LET c == calls[s]
           log == Append(c.log, "chroma.upsert")
           upserted == c.upserted \cup {c.id}
       IN  \E ok \in BOOLEAN :
              IF ok
              THEN /\ chromaCandidates' =
                        ChromaUpsert(chromaCandidates, c.id, c.pending.embedding,
                                     c.pending.metadata, c.pending.document)
                   /\ renderedFrom' = Remember(c.id, c.pending.row)
                   /\ calls' = Settle(s,
                                  IF Tail(c.rest) = <<>>
                                  THEN SyncAllDone(c.op, c.enumerated, upserted, "", "", log)
                                  ELSE [op |-> c.op, pc |-> "loop", id |-> "",
                                        error |-> "", log |-> log,
                                        enumerated |-> c.enumerated,
                                        rest |-> Tail(c.rest), upserted |-> upserted])
              ELSE /\ UNCHANGED <<chromaCandidates, renderedFrom>>
                   /\ calls' = Settle(s,
                                  SyncAllDone(c.op, c.enumerated, c.upserted, c.id,
                                              ChromaError, log))
    /\ UNCHANGED <<store, handles, chromaJobs>>

\* syncAllJobs: findMany of the active jobs, then the loop
SyncAllJobsCall(s) ==
    /\ Free(s)
    /\ \E order \in Orders(EnumerateJobs) :
          calls' = Settle(s,
                      IF order = <<>>
                      THEN SyncAllDone("syncAllJobs", <<>>, {}, "", "", <<"prisma">>)
                      ELSE [op |-> "syncAllJobs", pc |-> "loop", id |-> "",
                            error |-> "", log |-> <<"prisma">>,
                            enumerated |-> order, rest |-> order, upserted |-> {}])
    /\ UNCHANGED <<store, handles, index>>

\* one iteration up to the await of collection.upsert; a throw leaves the loop
SyncAllJobsLoop(s) ==
    /\ calls[s].op = "syncAllJobs" /\ calls[s].pc = "loop"
    /\ LET c == calls[s]
           id == Head(c.rest)
       IN  \E embedOk \in BOOLEAN :
              LET p == PrepareJob(id, embedOk) IN
              calls' = Settle(s,
                          IF p.error # ""
                          THEN SyncAllDone(c.op, c.enumerated, c.upserted, id, p.error,
                                           c.log \o p.log)
                          ELSE [c EXCEPT !.pc = "upsert", !.id = id,
                                         !.log = c.log \o p.log] @@ [pending |-> p])
    /\ UNCHANGED <<store, handles, index>>

SyncAllJobsWrite(s) ==
    /\ calls[s].op = "syncAllJobs" /\ calls[s].pc = "upsert"
    /\ LET c == calls[s]
           log == Append(c.log, "chroma.upsert")
           upserted == c.upserted \cup {c.id}
       IN  \E ok \in BOOLEAN :
              IF ok
              THEN /\ chromaJobs' =
                        ChromaUpsert(chromaJobs, c.id, c.pending.embedding,
                                     c.pending.metadata, c.pending.document)
                   /\ renderedFrom' = Remember(c.id, c.pending.row)
                   /\ calls' = Settle(s,
                                  IF Tail(c.rest) = <<>>
                                  THEN SyncAllDone(c.op, c.enumerated, upserted, "", "", log)
                                  ELSE [op |-> c.op, pc |-> "loop", id |-> "",
                                        error |-> "", log |-> log,
                                        enumerated |-> c.enumerated,
                                        rest |-> Tail(c.rest), upserted |-> upserted])
              ELSE /\ UNCHANGED <<chromaJobs, renderedFrom>>
                   /\ calls' = Settle(s,
                                  SyncAllDone(c.op, c.enumerated, c.upserted, c.id,
                                              ChromaError, log))
    /\ UNCHANGED <<store, handles, chromaCandidates>>


\* A match call that has returned.
MatchDone(op, id, limit, filters, error, log, matches) ==
    [op |-> op, pc |-> "done", id |-> id, error |-> error, log |-> log,
     limit |-> limit, filters |-> filters, matches |-> matches]

\* A findMatchingJobs that drops the candidate's entry once it has answered.
findMatchingJobsQueryConsuming(s, gapsAllowed) ==
    /\ calls[s].op = "findMatchingJobs" /\ calls[s].pc = "query"
    /\ LET c == calls[s]
           queryResult == ChromaQuery(chromaJobs, c.embedding, c.limit, c.whereClause)
       IN  /\ calls' = Settle(s,
                 MatchDone(c.op, c.id, c.limit, c.filters, "",
                           Append(c.log, "chroma.query"),
                           JobMatches(Answer(queryResult, NoGaps))))
           /\ chromaCandidates' = ChromaDelete(chromaCandidates, c.id)
    /\ UNCHANGED <<store, handles, chromaJobs, renderedFrom>>

\* findMatchingJobs(candidateId, limit, filters), from the call to the await of query:
\* handle check, get of the own document, embedding, where clause
findMatchingJobsCall(s, id, limit, filters) ==
    /\ Free(s)
    /\ \E getOk \in BOOLEAN, embedOk \in BOOLEAN :
          LET docs == ChromaGetDocuments(chromaCandidates, id)
              fail(error, log) == MatchDone("findMatchingJobs", id, limit, filters, error, log, <<>>)
          IN  calls' = Settle(s,
                 IF ~candidatesCollection \/ ~jobsCollection
                 THEN fail("Collections not initialized", <<>>)
                 ELSE IF ~getOk
                 THEN fail(ChromaError, <<"chroma.get">>)
                 ELSE IF Len(docs) = 0
                 THEN fail(NotInIndexMessage("Candidate", id),
                           <<"chroma.get">>)
                 ELSE IF docs[1] = ""
                 THEN fail("Candidate text not found for " \o id, <<"chroma.get">>)
                 ELSE IF ~embedOk
                 THEN fail(EmbeddingError, <<"chroma.get", "openai">>)
                 ELSE [op |-> "findMatchingJobs", pc |-> "query", id |-> id, error |-> "",
                       log |-> <<"chroma.get", "openai">>,
                       limit |-> limit, filters |-> filters,
                       text |-> docs[1],
                       embedding |-> Embedding(docs[1]),
                       whereClause |-> JobWhereClause(filters)])
    /\ UNCHANGED <<store, handles, index>>

\* collection.query answers, and the results are processed; gapsAllowed is
\* whether the answer may hold null metadata or distances
findMatchingJobsQuery(s, gapsAllowed) ==
    /\ calls[s].op = "findMatchingJobs" /\ calls[s].pc = "query"
    /\ LET c == calls[s]
           log == Append(c.log, "chroma.query")
           queryResult == ChromaQuery(chromaJobs, c.embedding, c.limit, c.whereClause)
       IN  \/ \E gaps \in (IF gapsAllowed THEN Gaps(Len(queryResult)) ELSE {NoGaps}) :
                calls' = Settle(s,
                   MatchDone(c.op, c.id, c.limit, c.filters, "", log,
                             JobMatches(Answer(queryResult, gaps))))
           \/ calls' = Settle(s,
                 MatchDone(c.op, c.id, c.limit, c.filters, ChromaError, log, <<>>))
    /\ UNCHANGED <<store, handles, index>>

\* findMatchingCandidates(jobId, limit, filters), from the call to the await of query:
\* handle check, get of the own document, embedding, where clause
findMatchingCandidatesCall(s, id, limit, filters) ==
    /\ Free(s)
    /\ \E getOk \in BOOLEAN, embedOk \in BOOLEAN :
          LET docs == ChromaGetDocuments(chromaJobs, id)
              fail(error, log) == MatchDone("findMatchingCandidates", id, limit, filters, error, log, <<>>)
          IN  calls' = Settle(s,
                 IF ~candidatesCollection \/ ~jobsCollection
                 THEN fail("Collections not initialized", <<>>)
                 ELSE IF ~getOk
                 THEN fail(ChromaError, <<"chroma.get">>)
                 ELSE IF Len(docs) = 0
                 THEN fail(NotInIndexMessage("Job", id),
                           <<"chroma.get">>)
                 ELSE IF docs[1] = ""
                 THEN fail("Job text not found for " \o id, <<"chroma.get">>)
                 ELSE IF ~embedOk
                 THEN fail(EmbeddingError, <<"chroma.get", "openai">>)
                 ELSE [op |-> "findMatchingCandidates", pc |-> "query", id |-> id, error |-> "",
                       log |-> <<"chroma.get", "openai">>,
                       limit |-> limit, filters |-> filters,
                       text |-> docs[1],
                       embedding |-> Embedding(docs[1]),
                       whereClause |-> CandidateWhereClause(filters)])
    /\ UNCHANGED <<store, handles, index>>

\* collection.query answers, and the results are processed; gapsAllowed is
\* whether the answer may hold null metadata or distances
findMatchingCandidatesQuery(s, gapsAllowed) ==
    /\ calls[s].op = "findMatchingCandidates" /\ calls[s].pc = "query"
    /\ LET c == calls[s]
           log == Append(c.log, "chroma.query")
           queryResult == ChromaQuery(chromaCandidates, c.embedding, c.limit, c.whereClause)
       IN  \/ \E gaps \in (IF gapsAllowed THEN Gaps(Len(queryResult)) ELSE {NoGaps}) :
                calls' = Settle(s,
                   MatchDone(c.op, c.id, c.limit, c.filters, "", log,
                             CandidateMatches(Answer(queryResult, gaps))))
           \/ calls' = Settle(s,
                 MatchDone(c.op, c.id, c.limit, c.filters, ChromaError, log, <<>>))
    /\ UNCHANGED <<store, handles, index>>

\* A removeCandidate that deletes the relational row as well.
RemoveCandidateWithRow(s, id) ==
    /\ Free(s)
    /\ candidatesCollection
    /\ chromaCandidates' = ChromaDelete(chromaCandidates, id)
    /\ renderedFrom' = Forget(id)
    /\ candidates' = [x \in DOMAIN candidates \ {id} |-> candidates[x]]
    /\ calls' = Settle(s, Removed("removeCandidate", id, chromaCandidates))
    /\ UNCHANGED <<jobPositions, issued, handles, chromaJobs>>

\* removeCandidate(id)
RemoveCandidate(s, id) ==
    /\ Free(s)
    /\ \E ok \in BOOLEAN :
          IF ~candidatesCollection
          THEN /\ calls' = Settle(s,
                     Done("removeCandidate", id,
                          "Candidates collection not initialized", <<>>))
               /\ UNCHANGED <<chromaCandidates, renderedFrom>>
          ELSE IF ok
          THEN /\ chromaCandidates' = ChromaDelete(chromaCandidates, id)
               /\ renderedFrom' = Forget(id)
               /\ calls' = Settle(s,
                     Removed("removeCandidate", id, chromaCandidates))
          ELSE /\ calls' = Settle(s,
                     Done("removeCandidate", id, ChromaError, <<"chroma.delete">>))
               /\ UNCHANGED <<chromaCandidates, renderedFrom>>
    /\ UNCHANGED <<store, handles, chromaJobs>>

\* removeJob(id)
RemoveJob(s, id) ==
    /\ Free(s)
    /\ \E ok \in BOOLEAN :
          IF ~jobsCollection
          THEN /\ calls' = Settle(s,
                     Done("removeJob", id, "Jobs collection not initialized", <<>>))
               /\ UNCHANGED <<chromaJobs, renderedFrom>>
          ELSE IF ok
          THEN /\ chromaJobs' = ChromaDelete(chromaJobs, id)
               /\ renderedFrom' = Forget(id)
               /\ calls' = Settle(s,
                     Removed("removeJob", id, chromaJobs))
          ELSE /\ calls' = Settle(s,
                     Done("removeJob", id, ChromaError, <<"chroma.delete">>))
               /\ UNCHANGED <<chromaJobs, renderedFrom>>
    /\ UNCHANGED <<store, handles, chromaCandidates>>

-----------------------------------------------------------------------------
(* The sync protocol: CRUD writes, syncs, removes and unfiltered matches *)

DefaultLimit == 10

\* A step of a call already in flight
Continue ==
    \E s \in Slots :
       \/ UpsertCandidateWrite(s)
       \/ UpsertJobWrite(s)
       \/ SyncAllCandidatesLoop(s)
       \/ SyncAllCandidatesWrite(s)
       \/ SyncAllJobsLoop(s)
       \/ SyncAllJobsWrite(s)
       \/ findMatchingJobsQuery(s, TRUE)
       \/ findMatchingCandidatesQuery(s, TRUE)

Crud ==
    \/ CreateCandidate
    \/ UpdateCandidate
    \/ DeleteCandidate
    \/ CreateJobPosition
    \/ UpdateJobPosition
    \/ DeleteJobPosition

Request ==
    \E s \in Slots :
       \/ \E id \in CandidateCallIds : UpsertCandidateCall(s, id)
       \/ \E id \in JobCallIds : UpsertJobCall(s, id)
       \/ SyncAllCandidatesCall(s)
       \/ SyncAllJobsCall(s)
       \/ \E id \in CandidateCallIds :
             findMatchingJobsCall(s, id, DefaultLimit, NoJobFilters)
       \/ \E id \in JobCallIds :
             findMatchingCandidatesCall(s, id, DefaultLimit, NoCandidateFilters)
       \/ \E id \in CandidateCallIds : RemoveCandidate(s, id)
       \/ \E id \in JobCallIds : RemoveJob(s, id)

Next == Crud \/ Initialize \/ Request \/ Continue

Spec == Init /\ [][Next]_vars

\* A call in flight is answered: the awaited request returns or throws.
FairSpec == Spec /\ WF_vars(Continue)

-----------------------------------------------------------------------------
(* Claims checked on the sync protocol *)

\* Slot s takes a new call of operation op in this step.
Called(s, op) == Free(s) /\ calls'[s].op = op /\ calls'[s].pc # "idle"

\* The call in slot s has returned with this step's answer.
Returned(s, op) == calls[s].pc = "done" /\ calls[s].op = op

\* C2: a match query for an id that has a relational row but no entry in its
\* own index throws; with both handles set and the get answered, the message
\* is the not-found-in-vector-database one, which the controller answers as
\* 404 *_NOT_SYNCED, which differs from the relational not-found message, and
\* the call has made no relational read.
C2_NotSyncedIsDistinct ==
    [][\A s \in Slots :
         /\ ( /\ Called(s, "findMatchingJobs")
              /\ calls'[s].id \in DOMAIN candidates
              /\ calls'[s].id \notin DOMAIN chromaCandidates )
            => LET c == calls'[s] IN
               /\ c.pc = "done" /\ c.error # ""
               /\ c.error # NotInStoreMessage("Candidate", c.id)
               /\ "prisma" \notin Range(c.log)
               /\ (candidatesCollection /\ jobsCollection /\ c.error # ChromaError)
                  => /\ c.error = NotInIndexMessage("Candidate", c.id)
                     /\ MatchErrorResponse("CANDIDATE", c.error)
                          = [status |-> 404, error |-> "CANDIDATE_NOT_SYNCED"]
         /\ ( /\ Called(s, "findMatchingCandidates")
              /\ calls'[s].id \in DOMAIN jobPositions
              /\ calls'[s].id \notin DOMAIN chromaJobs )
            => LET c == calls'[s] IN
               /\ c.pc = "done" /\ c.error # ""
               /\ c.error # NotInStoreMessage("Job", c.id)
               /\ "prisma" \notin Range(c.log)
               /\ (candidatesCollection /\ jobsCollection /\ c.error # ChromaError)
                  => /\ c.error = NotInIndexMessage("Job", c.id)
                     /\ MatchErrorResponse("JOB", c.error)
                          = [status |-> 404, error |-> "JOB_NOT_SYNCED"]
      ]_vars

\* C2 witness: a match for a candidate that has a row and no entry has just
\* returned the not-synced error.
C2_Witness ==
    \E s \in Slots :
       /\ Returned(s, "findMatchingJobs")
       /\ calls[s].id \in DOMAIN candidates
       /\ calls[s].id \notin DOMAIN chromaCandidates
       /\ calls[s].error = NotInIndexMessage("Candidate", calls[s].id)

\* C3: syncOne of an id with no relational row (the handle being set) throws
\* the relational not-found message, having made no embedding request and no
\* upsert, and leaves both collections as they were.
C3_SyncOneOfMissingRow ==
    [][\A s \in Slots :
         /\ ( /\ Called(s, "upsertCandidate")
              /\ candidatesCollection
              /\ calls'[s].id \notin DOMAIN candidates )
            => /\ calls'[s].pc = "done"
               /\ calls'[s].error = NotInStoreMessage("Candidate", calls'[s].id)
               /\ calls'[s].log = <<"prisma">>
               /\ UNCHANGED <<chromaCandidates, chromaJobs>>
         /\ ( /\ Called(s, "upsertJob")
              /\ jobsCollection
              /\ calls'[s].id \notin DOMAIN jobPositions )
            => /\ calls'[s].pc = "done"
               /\ calls'[s].error = NotInStoreMessage("Job", calls'[s].id)
               /\ calls'[s].log = <<"prisma">>
               /\ UNCHANGED <<chromaCandidates, chromaJobs>>
      ]_vars

\* C3 witness: a syncOne of a deleted candidate has just thrown not-found
\* while the candidate's old entry is still in the index.
C3_Witness ==
    \E s \in Slots :
       /\ Returned(s, "upsertCandidate")
       /\ calls[s].error = NotInStoreMessage("Candidate", calls[s].id)
       /\ calls[s].id \notin DOMAIN candidates
       /\ calls[s].id \in DOMAIN chromaCandidates

\* C4 (as claimed): when a syncAll of the jobs has returned without error, the
\* job index holds no entry of a job whose relational status is not ACTIVE.
C4_NoInactiveJobAfterSyncAll ==
    \A s \in Slots :
       (Returned(s, "syncAllJobs") /\ calls[s].error = "")
       => \A id \in DOMAIN chromaJobs \cap DOMAIN jobPositions :
             jobPositions[id].status = "ACTIVE"

\* C5 (as claimed, its invariant part): every id in a collection has a
\* relational row of that type.
C5_IndexIdsHaveRows ==
    /\ DOMAIN chromaCandidates \subseteq DOMAIN candidates
    /\ DOMAIN chromaJobs \subseteq DOMAIN jobPositions

\* The entry of id mirrors the current relational row of id.
CandidateEntryCurrent(id) ==
    /\ id \in DOMAIN chromaCandidates
    /\ chromaCandidates[id].metadata = CandidateMetadata(candidates[id])
    /\ chromaCandidates[id].document
         = createCandidateText(CandidateVectorOf(id, candidates[id]))

JobEntryCurrent(id) ==
    /\ id \in DOMAIN chromaJobs
    /\ chromaJobs[id].metadata = JobMetadata(jobPositions[id])
    /\ chromaJobs[id].document = createJobText(JobVectorOf(id, jobPositions[id]))

\* C6 (as claimed): a row written through the CRUD endpoints is eventually
\* mirrored by its index entry (or is deleted first), whatever the clients do.
C6_AutomaticSync ==
    /\ \A id \in CandidateCallIds :
          [](id \in DOMAIN candidates
             => <>(id \notin DOMAIN candidates \/ CandidateEntryCurrent(id)))
    /\ \A id \in JobCallIds :
          [](id \in DOMAIN jobPositions
             => <>(id \notin DOMAIN jobPositions \/ JobEntryCurrent(id)))

\* C7: a syncOne that has written the entry of an id whose previous entry was
\* rendered from the very row this call read leaves the entry as it was.
C7_SyncOneIdempotent ==
    \A s \in Slots :
       /\ ( /\ Returned(s, "upsertCandidate") /\ calls[s].error = ""
            /\ calls[s].beforeRow = Some(calls[s].row) )
          => Some(chromaCandidates[calls[s].id]) = calls[s].before
       /\ ( /\ Returned(s, "upsertJob") /\ calls[s].error = ""
            /\ calls[s].beforeRow = Some(calls[s].row) )
          => Some(chromaJobs[calls[s].id]) = calls[s].before

\* C7 witness: a second syncOne of an unchanged candidate row has returned.
C7_Witness ==
    \E s \in Slots :
       /\ Returned(s, "upsertCandidate") /\ calls[s].error = ""
       /\ calls[s].beforeRow = Some(calls[s].row)
       /\ calls[s].id \in DOMAIN candidates
       /\ candidates[calls[s].id] = calls[s].row

-----------------------------------------------------------------------------
(* Batches over tables of several rows *)

\* rows of each table when the batches run
BatchRows == 2

FirstSlot == CHOOSE s \in Slots : \A t \in Slots : s <= t

\* The service is initialized, BatchRows candidates and jobs have been created
\* through the CRUD endpoints, and nothing has been synchronized yet.
BatchInit ==
    /\ candidates \in [FirstIds(CandIds, BatchRows) -> UNION {CandidateRows(id) : id \in Range(CandIds)}]
    /\ \A id \in DOMAIN candidates : candidates[id] \in CandidateRows(id)
    /\ jobPositions \in [FirstIds(JobIds, BatchRows) -> JobRows]
    /\ issued = DOMAIN candidates \cup DOMAIN jobPositions
    /\ candidatesCollection = TRUE
    /\ jobsCollection = TRUE
    /\ chromaCandidates = <<>>
    /\ chromaJobs = <<>>
    /\ renderedFrom = <<>>
    /\ calls = [s \in Slots |-> Idle]

BatchNext ==
    \/ SyncAllCandidatesCall(FirstSlot)
    \/ SyncAllCandidatesLoop(FirstSlot)
    \/ SyncAllCandidatesWrite(FirstSlot)
    \/ SyncAllJobsCall(FirstSlot)
    \/ SyncAllJobsLoop(FirstSlot)
    \/ SyncAllJobsWrite(FirstSlot)

BatchSpec == BatchInit /\ [][BatchNext]_vars

\* C1 (as claimed): a batch that has returned after the sync of one record
\* threw has upserted every other record findMany had listed.
C1_BatchSkipsFailedRecord ==
    \A s \in Slots :
       ( /\ calls[s].pc = "done"
         /\ calls[s].op \in {"syncAllCandidates", "syncAllJobs"}
         /\ calls[s].error # "" )
       => Range(calls[s].enumerated) \ {calls[s].id} \subseteq calls[s].upserted

-----------------------------------------------------------------------------
(* Match queries over a synchronized index *)

QueryCandidates ==
    [c1 |-> [skills |-> <<"Go", "SQL">>, experience |-> 5, location |-> "Istanbul",
             availability |-> "IMMEDIATE", salary_expectation |-> Some(80000)],
     c2 |-> [skills |-> <<>>, experience |-> 2, location |-> "Ankara",
             availability |-> "WITHIN_MONTH", salary_expectation |-> None],
     c3 |-> [skills |-> <<"Rust">>, experience |-> 8, location |-> "Istanbul",
             availability |-> "IMMEDIATE", salary_expectation |-> Some(120000)]]

QueryJobs ==
    [j1 |-> [required_skills |-> <<"Go">>, preferred_skills |-> Some(<<"SQL">>),
             experience_level |-> "MID", location |-> "Istanbul", remote_ok |-> TRUE,
             salary_min |-> Some(60000), salary_max |-> Some(90000),
             employment_type |-> "FULL_TIME"],
     j2 |-> [required_skills |-> <<"Rust", "Go">>, preferred_skills |-> Some(<<>>),
             experience_level |-> "SENIOR", location |-> "Ankara", remote_ok |-> FALSE,
             salary_min |-> Some(100000), salary_max |-> None,
             employment_type |-> "CONTRACT"],
     j3 |-> [required_skills |-> <<"SQL">>, preferred_skills |-> Some(<<"Go">>),
             experience_level |-> "MID", location |-> "Istanbul", remote_ok |-> FALSE,
             salary_min |-> None, salary_max |-> Some(70000),
             employment_type |-> "FULL_TIME"]]

QueryCandidateRow(id) ==
    [firstName |-> "Ada", lastName |-> "Kaya", email |-> id \o "@example.com"]
      @@ QueryCandidates[id]

QueryJobRow(id) ==
    [title |-> "Backend Developer", company |-> "Acme",
     description |-> "Builds the matching API", status |-> "ACTIVE"]
      @@ QueryJobs[id]

\* The filters a client may send, after the controller has parsed them.
JobFilterSets ==
    [location : {None, Some("Istanbul")},
     remoteOk : {None, Some(TRUE)},
     experienceLevel : {None, Some("MID")},
     employmentType : {None, Some("FULL_TIME")},
     salaryMin : {None, Some(80000)},
     salaryMax : {None, Some(85000)}]

CandidateFilterSets ==
    [location : {None, Some("Istanbul")},
     availability : {None, Some("IMMEDIATE")},
     minExperience : {None, Some(3)},
     maxExperience : {None, Some(6)},
     maxSalaryExpectation : {None, Some(100000)}]

\* Three candidates and three active jobs have been created, the service is
\* initialized and a syncAll of each table has completed.
QueryInit ==
    /\ candidates = [id \in DOMAIN QueryCandidates |-> QueryCandidateRow(id)]
    /\ jobPositions = [id \in DOMAIN QueryJobs |-> QueryJobRow(id)]
    /\ issued = DOMAIN candidates \cup DOMAIN jobPositions
    /\ candidatesCollection = TRUE
    /\ jobsCollection = TRUE
    /\ chromaCandidates =
          [id \in DOMAIN candidates |->
              LET p == PrepareCandidate(id, TRUE)
              IN  [embedding |-> p.embedding, metadata |-> p.metadata,
                   document |-> p.document]]
    /\ chromaJobs =
          [id \in DOMAIN jobPositions |->
              LET p == PrepareJob(id, TRUE)
              IN  [embedding |-> p.embedding, metadata |-> p.metadata,
                   document |-> p.document]]
    /\ renderedFrom =
          [id \in DOMAIN candidates \cup DOMAIN jobPositions |->
              IF id \in DOMAIN candidates THEN candidates[id] ELSE jobPositions[id]]
    /\ calls = [s \in Slots |-> Idle]

QueryNext ==
    \/ \E id \in DOMAIN QueryCandidates, filters \in JobFilterSets :
          findMatchingJobsCall(FirstSlot, id, DefaultLimit, filters)
    \/ findMatchingJobsQuery(FirstSlot, FALSE)
    \/ \E id \in DOMAIN QueryJobs, filters \in CandidateFilterSets :
          findMatchingCandidatesCall(FirstSlot, id, DefaultLimit, filters)
    \/ findMatchingCandidatesQuery(FirstSlot, FALSE)

QuerySpec == QueryInit /\ [][QueryNext]_vars

\* The entries of the job index that a returned match lists.
Returns(c, coll) ==
    /\ c.pc = "done" /\ c.error = ""
    /\ \A i \in DOMAIN c.matches :
          /\ c.matches[i].id \in DOMAIN coll
          /\ c.matches[i].metadata = coll[c.matches[i].id].metadata

\* C8 (as claimed): every entry a match query returns satisfies every filter
\* predicate the client supplied.
C8_FiltersConjunctive ==
    \A s \in Slots : LET c == calls[s] IN
       /\ (Returned(s, "findMatchingJobs") /\ c.error = "")
          => \A i \in DOMAIN c.matches : LET m == c.matches[i].metadata IN
                /\ c.filters.location # None => m.location = TheValue(c.filters.location)
                /\ c.filters.remoteOk # None => m.remoteOk = TheValue(c.filters.remoteOk)
                /\ c.filters.experienceLevel # None
                   => m.experienceLevel = ToLowerCase(TheValue(c.filters.experienceLevel))
                /\ c.filters.employmentType # None
                   => m.employmentType = ToLowerCase(TheValue(c.filters.employmentType))
                /\ c.filters.salaryMin # None => m.salaryMax >= TheValue(c.filters.salaryMin)
                /\ c.filters.salaryMax # None => m.salaryMin <= TheValue(c.filters.salaryMax)
       /\ (Returned(s, "findMatchingCandidates") /\ c.error = "")
          => \A i \in DOMAIN c.matches : LET m == c.matches[i].metadata IN
                /\ c.filters.location # None => m.location = TheValue(c.filters.location)
                /\ c.filters.availability # None
                   => m.availability = ToLowerCase(TheValue(c.filters.availability))
                /\ c.filters.minExperience # None
                   => m.experience >= TheValue(c.filters.minExperience)
                /\ c.filters.maxExperience # None
                   => m.experience <= TheValue(c.filters.maxExperience)
                /\ c.filters.maxSalaryExpectation # None
                   => m.salaryExpectation <= TheValue(c.filters.maxSalaryExpectation)

\* C9 (as claimed): a candidate match with both a minimum and a maximum
\* experience returns only candidates whose stored experience lies between
\* the two.
C9_ExperienceRange ==
    \A s \in Slots : LET c == calls[s] IN
       ( /\ Returned(s, "findMatchingCandidates") /\ c.error = ""
         /\ c.filters.minExperience # None /\ c.filters.maxExperience # None )
       => \A i \in DOMAIN c.matches :
             /\ c.matches[i].id \in DOMAIN chromaCandidates
             /\ chromaCandidates[c.matches[i].id].metadata.experience
                   >= TheValue(c.filters.minExperience)
             /\ chromaCandidates[c.matches[i].id].metadata.experience
                   <= TheValue(c.filters.maxExperience)

\* C10: a job match with a minimum salary X returns only jobs whose stored
\* salaryMax is at least X, and with a maximum salary Y only jobs whose
\* stored salaryMin is at most Y.
C10_SalaryOverlap ==
    \A s \in Slots : LET c == calls[s] IN
       (Returned(s, "findMatchingJobs") /\ c.error = "")
       => /\ Returns(c, chromaJobs)
          /\ \A i \in DOMAIN c.matches :
                LET stored == chromaJobs[c.matches[i].id].metadata IN
                /\ c.filters.salaryMin # None
                   => stored.salaryMax >= TheValue(c.filters.salaryMin)
                /\ c.filters.salaryMax # None
                   => stored.salaryMin <= TheValue(c.filters.salaryMax)

\* C10 witness: a match with both salary bounds has returned a job and has
\* left out a job for each bound.
C10_Witness ==
    \E s \in Slots : LET c == calls[s] IN
       /\ Returned(s, "findMatchingJobs") /\ c.error = ""
       /\ c.filters.salaryMin # None /\ c.filters.salaryMax # None
       /\ c.matches # <<>>
       /\ \E id \in DOMAIN chromaJobs :
             chromaJobs[id].metadata.salaryMax < TheValue(c.filters.salaryMin)
       /\ \E id \in DOMAIN chromaJobs :
             chromaJobs[id].metadata.salaryMin > TheValue(c.filters.salaryMax)

-----------------------------------------------------------------------------
(* Scores of unfiltered matches over a synchronized index *)

ScoreNext ==
    \/ \E id \in DOMAIN QueryCandidates :
          findMatchingJobsCall(FirstSlot, id, DefaultLimit, NoJobFilters)
    \/ findMatchingJobsQuery(FirstSlot, TRUE)
    \/ \E id \in DOMAIN QueryJobs :
          findMatchingCandidatesCall(FirstSlot, id, DefaultLimit, NoCandidateFilters)
    \/ findMatchingCandidatesQuery(FirstSlot, TRUE)

ScoreSpec == QueryInit /\ [][ScoreNext]_vars

\* A match call of either kind has returned its list in slot s.
Matched(s) ==
    /\ calls[s].pc = "done" /\ calls[s].error = ""
    /\ calls[s].op \in {"findMatchingJobs", "findMatchingCandidates"}

\* C11 (as claimed): the score of every returned match is 1 minus the distance
\* reported in that same match.
C11_ScoreIsOneMinusDistance ==
    \A s \in DOMAIN calls :
       Matched(s) => \A i \in DOMAIN calls[s].matches :
                        calls[s].matches[i].score = 1 - calls[s].matches[i].distance

\* C12 (as claimed): the score of every returned match lies in [0, 1].
C12_ScoreInUnitInterval ==
    \A s \in DOMAIN calls :
       Matched(s) => \A i \in DOMAIN calls[s].matches :
                        /\ calls[s].matches[i].score >= 0
                        /\ calls[s].matches[i].score <= 1

\* C13 (as claimed): the returned list is in non-increasing order of score.
C13_ScoresNonIncreasing ==
    \A s \in DOMAIN calls :
       Matched(s) => \A i \in 1..(Len(calls[s].matches) - 1) :
                        calls[s].matches[i].score >= calls[s].matches[i + 1].score

-----------------------------------------------------------------------------
(* Overlapping requests on a few rows *)

\* requests in flight at once, and candidates they work on
RaceCalls == 2
RaceCandidates == 2

\* The service is initialized, RaceCandidates candidates and one active job exist and
\* nothing has been synchronized yet.
RaceInit ==
    /\ candidates \in [FirstIds(CandIds, RaceCandidates) ->
                          UNION {CandidateRows(id) : id \in Range(CandIds)}]
    /\ \A id \in DOMAIN candidates : candidates[id] \in CandidateRows(id)
    /\ jobPositions \in [FirstIds(JobIds, 1) -> {j \in JobRows : j.status = "ACTIVE"}]
    /\ issued = DOMAIN candidates \cup DOMAIN jobPositions
    /\ candidatesCollection = TRUE
    /\ jobsCollection = TRUE
    /\ chromaCandidates = <<>>
    /\ chromaJobs = <<>>
    /\ renderedFrom = <<>>
    /\ calls = [s \in 1..RaceCalls |-> Idle]

RaceNext ==
    \/ UpdateCandidate
    \/ Initialize
    \/ \E s \in DOMAIN calls :
          \/ \E id \in DOMAIN candidates : UpsertCandidateCall(s, id)
          \/ UpsertCandidateWrite(s)
          \/ \E id \in DOMAIN jobPositions : UpsertJobCall(s, id)
          \/ UpsertJobWrite(s)
          \/ \E id \in DOMAIN candidates : RemoveCandidate(s, id)
          \/ \E id \in DOMAIN jobPositions : RemoveJob(s, id)
          \/ \E id \in DOMAIN candidates :
                findMatchingJobsCall(s, id, DefaultLimit, NoJobFilters)
          \/ findMatchingJobsQuery(s, FALSE)
          \/ \E id \in DOMAIN jobPositions :
                findMatchingCandidatesCall(s, id, DefaultLimit, NoCandidateFilters)
          \/ findMatchingCandidatesQuery(s, FALSE)

RaceSpec == RaceInit /\ [][RaceNext]_vars

\* C14: a removeJob that returns without error leaves no entry of the job; an
\* absent job entry appears only by the upsert of a sync of that job; the jobs
\* a match returns are entries of the collection when it is queried; and
\* while the entry is absent a get of it finds no document and
\* findMatchingCandidates of the job throws the not-synced error (or the
\* index's own failure).
C14_RemovedJobStaysOut ==
    [][ /\ \A s \in DOMAIN calls :
             (Called(s, "removeJob") /\ calls'[s].error = "")
             => calls'[s].id \notin DOMAIN chromaJobs'
        /\ \A id \in Range(JobIds) :
             (id \notin DOMAIN chromaJobs /\ id \in DOMAIN chromaJobs')
             => \E s \in DOMAIN calls :
                   /\ calls[s].pc = "upsert" /\ calls[s].id = id
                   /\ calls[s].op \in {"upsertJob", "syncAllJobs"}
        /\ \A s \in DOMAIN calls :
             ( /\ calls[s].op = "findMatchingJobs" /\ calls[s].pc = "query"
               /\ calls'[s].pc = "done" )
             => \A i \in DOMAIN calls'[s].matches :
                   calls'[s].matches[i].id \in DOMAIN chromaJobs
        /\ \A s \in DOMAIN calls :
             ( /\ Called(s, "findMatchingCandidates")
               /\ candidatesCollection /\ jobsCollection
               /\ calls'[s].id \notin DOMAIN chromaJobs )
             => /\ ChromaGetDocuments(chromaJobs, calls'[s].id) = <<>>
                /\ calls'[s].pc = "done"
                /\ calls'[s].error \in {NotInIndexMessage("Job", calls'[s].id), ChromaError}
      ]_vars

\* C14 witness: a removeJob of a job that had an entry has returned, and the
\* entry is gone while the job's row is still there.
C14_Witness ==
    \E s \in DOMAIN calls :
       /\ Returned(s, "removeJob") /\ calls[s].error = "" /\ calls[s].existed
       /\ calls[s].id \notin DOMAIN chromaJobs
       /\ calls[s].id \in DOMAIN jobPositions

\* C15: a remove of an id that has no entry, the handle being set and the
\* index answering, returns without error and leaves both collections as they
\* were; and after any successful remove a second delete of the id changes
\* nothing.
C15_RemoveIdempotent ==
    [][\A s \in DOMAIN calls :
         /\ ( /\ Called(s, "removeCandidate") /\ candidatesCollection
              /\ calls'[s].id \notin DOMAIN chromaCandidates
              /\ calls'[s].error # ChromaError )
            => /\ calls'[s].error = ""
               /\ UNCHANGED <<chromaCandidates, chromaJobs>>
         /\ ( /\ Called(s, "removeJob") /\ jobsCollection
              /\ calls'[s].id \notin DOMAIN chromaJobs
              /\ calls'[s].error # ChromaError )
            => /\ calls'[s].error = ""
               /\ UNCHANGED <<chromaCandidates, chromaJobs>>
         /\ (Called(s, "removeCandidate") /\ calls'[s].error = "")
            => ChromaDelete(chromaCandidates', calls'[s].id) = chromaCandidates'
         /\ (Called(s, "removeJob") /\ calls'[s].error = "")
            => ChromaDelete(chromaJobs', calls'[s].id) = chromaJobs'
      ]_vars

\* C15 witness: a remove of a candidate that had no entry has returned without
\* error while another candidate has one.
C15_Witness ==
    \E s \in DOMAIN calls :
       /\ Returned(s, "removeCandidate") /\ calls[s].error = ""
       /\ ~calls[s].existed
       /\ chromaCandidates # <<>>

\* The call in slot s is a match call and this step answers its query.
MatchAnswered(s) ==
    /\ calls[s].pc = "query" /\ calls'[s].pc = "done"
    /\ calls[s].op \in {"findMatchingJobs", "findMatchingCandidates"}

\* C16: every step of a match call, whether it returns a list or throws, and
\* the initialize its handler runs first, leaves the relational tables and
\* the entries of both collections as they were.
C16_MatchReadOnly ==
    [][ /\ \A s \in DOMAIN calls :
             ( \/ Called(s, "findMatchingJobs")
               \/ Called(s, "findMatchingCandidates")
               \/ MatchAnswered(s) )
             => UNCHANGED <<candidates, jobPositions, chromaCandidates, chromaJobs>>
        /\ (handles' # handles)
             => UNCHANGED <<candidates, jobPositions, chromaCandidates, chromaJobs>>
      ]_vars

\* C16 witness: a match has returned a non-empty list.
C16_Witness ==
    \E s \in DOMAIN calls :
       /\ Returned(s, "findMatchingJobs") /\ calls[s].error = ""
       /\ calls[s].matches # <<>>
       /\ chromaCandidates # <<>>

\* Slot s takes or advances a service call in this step.
ServiceStep(s) == calls'[s].pc # "idle" /\ calls'[s] # calls[s]

\* C17: no step of a service call and no initialize (which is all the health
\* check runs) changes the relational tables; a remove leaves the row of its
\* id in place.
C17_CoreNeverWritesStore ==
    [][ /\ \A s \in DOMAIN calls : ServiceStep(s) => UNCHANGED store
        /\ (handles' # handles) => UNCHANGED store
        /\ \A s \in DOMAIN calls :
             ( /\ Called(s, "removeCandidate")
               /\ calls'[s].id \in DOMAIN candidates )
             => /\ calls'[s].id \in DOMAIN candidates'
                /\ candidates'[calls'[s].id] = candidates[calls'[s].id]
        /\ \A s \in DOMAIN calls :
             ( /\ Called(s, "removeJob")
               /\ calls'[s].id \in DOMAIN jobPositions )
             => /\ calls'[s].id \in DOMAIN jobPositions'
                /\ jobPositions'[calls'[s].id] = jobPositions[calls'[s].id]
      ]_vars

\* C17 witness: a remove has deleted the entry of a candidate whose row is
\* still in the table.
C17_Witness ==
    \E s \in DOMAIN calls :
       /\ Returned(s, "removeCandidate") /\ calls[s].error = "" /\ calls[s].existed
       /\ calls[s].id \in DOMAIN candidates
       /\ calls[s].id \notin DOMAIN chromaCandidates

\* C18: an entry leaves its collection only in the step in which a remove of
\* that id returns without error.
C18_NoImplicitRemoval ==
    [][ /\ \A id \in Range(CandIds) :
             (id \in DOMAIN chromaCandidates /\ id \notin DOMAIN chromaCandidates')
             => \E s \in DOMAIN calls :
                   /\ Called(s, "removeCandidate")
                   /\ calls'[s].id = id /\ calls'[s].error = ""
        /\ \A id \in Range(JobIds) :
             (id \in DOMAIN chromaJobs /\ id \notin DOMAIN chromaJobs')
             => \E s \in DOMAIN calls :
                   /\ Called(s, "removeJob")
                   /\ calls'[s].id = id /\ calls'[s].error = ""
      ]_vars

\* C18 witness: the first sync of one candidate has written its entry and the
\* entry of another candidate is still there.
C18_Witness ==
    \E s \in DOMAIN calls :
       /\ Returned(s, "upsertCandidate") /\ calls[s].error = ""
       /\ calls[s].before = None
       /\ \E other \in DOMAIN chromaCandidates : other # calls[s].id

\* C19: when a syncOne has returned after its upsert, the entry of its id is
\* the rendering of the row the call read and nothing else: the document is
\* the text of that row, and the metadata has exactly the fields the code
\* derives, each from its relational field.
C19_SyncOneReplacesEntry ==
    \A s \in DOMAIN calls : LET c == calls[s] IN
       /\ (Returned(s, "upsertCandidate") /\ c.error = "")
          => /\ c.id \in DOMAIN chromaCandidates
             /\ LET e == chromaCandidates[c.id]
                    m == e.metadata
                IN  /\ e.document = createCandidateText(CandidateVectorOf(c.id, c.row))
                    /\ e.embedding = Embedding(e.document)
                    /\ DOMAIN m = {"firstName", "lastName", "email", "experience",
                                   "location", "availability", "skillsCount",
                                   "salaryExpectation", "skills"}
                    /\ m.firstName = c.row.firstName /\ m.lastName = c.row.lastName
                    /\ m.email = c.row.email /\ m.experience = c.row.experience
                    /\ m.location = c.row.location
                    /\ m.availability = ToLowerCase(c.row.availability)
                    /\ m.skillsCount = Len(c.row.skills)
                    /\ m.skills = Join(c.row.skills, ",")
                    /\ m.salaryExpectation = (IF c.row.salary_expectation = None THEN 0
                                              ELSE TheValue(c.row.salary_expectation))
       /\ (Returned(s, "upsertJob") /\ c.error = "")
          => /\ c.id \in DOMAIN chromaJobs
             /\ LET e == chromaJobs[c.id]
                    m == e.metadata
                IN  /\ e.document = createJobText(JobVectorOf(c.id, c.row))
                    /\ e.embedding = Embedding(e.document)
                    /\ DOMAIN m = {"title", "company", "experienceLevel", "location",
                                   "remoteOk", "employmentType", "salaryMin", "salaryMax",
                                   "requiredSkillsCount", "preferredSkillsCount",
                                   "requiredSkills", "preferredSkills"}
                    /\ m.title = c.row.title /\ m.company = c.row.company
                    /\ m.experienceLevel = ToLowerCase(c.row.experience_level)
                    /\ m.location = c.row.location /\ m.remoteOk = c.row.remote_ok
                    /\ m.employmentType = ToLowerCase(c.row.employment_type)
                    /\ m.salaryMin = (IF c.row.salary_min = None THEN 0
                                      ELSE TheValue(c.row.salary_min))
                    /\ m.salaryMax = (IF c.row.salary_max = None THEN 0
                                      ELSE TheValue(c.row.salary_max))
                    /\ m.requiredSkillsCount = Len(c.row.required_skills)
                    /\ m.requiredSkills = Join(c.row.required_skills, ",")
                    /\ m.preferredSkillsCount = Len(PreferredOrEmpty(c.row.preferred_skills))
                    /\ m.preferredSkills = Join(PreferredOrEmpty(c.row.preferred_skills), ",")

\* C19 witness: a syncOne has replaced an entry that had been rendered from a
\* row with another location.
C19_Witness ==
    \E s \in DOMAIN calls :
       /\ Returned(s, "upsertCandidate") /\ calls[s].error = ""
       /\ calls[s].before # None /\ calls[s].beforeRow # None
       /\ TheValue(calls[s].beforeRow).location # calls[s].row.location
       /\ TheValue(calls[s].before).metadata.location # calls[s].row.location

\* C20: whatever syncs of an id overlap, the entry of the id is at all times
\* the embedding, metadata and document that one single call rendered from
\* the row it read: the call whose upsert was applied last.
C20_LastWriterWins ==
    /\ \A id \in DOMAIN chromaCandidates :
          /\ id \in DOMAIN renderedFrom
          /\ LET text == createCandidateText(CandidateVectorOf(id, renderedFrom[id]))
             IN  chromaCandidates[id] =
                    [embedding |-> Embedding(text),
                     metadata |-> CandidateMetadata(renderedFrom[id]),
                     document |-> text]
    /\ \A id \in DOMAIN chromaJobs :
          /\ id \in DOMAIN renderedFrom
          /\ LET text == createJobText(JobVectorOf(id, renderedFrom[id]))
             IN  chromaJobs[id] =
                    [embedding |-> Embedding(text),
                     metadata |-> JobMetadata(renderedFrom[id]),
                     document |-> text]
    /\ \A s \in DOMAIN calls :
          (Returned(s, "upsertCandidate") /\ calls[s].error = "")
          => renderedFrom[calls[s].id] = calls[s].row

\* C20 witness: two syncs of a candidate overlapped around an update of its
\* row; the one that had read the older row was applied last, over the entry
\* the other had written from the current row.
C20_Witness ==
    \E s \in DOMAIN calls :
       /\ Returned(s, "upsertCandidate") /\ calls[s].error = ""
       /\ calls[s].id \in DOMAIN candidates
       /\ candidates[calls[s].id] # calls[s].row
       /\ calls[s].beforeRow = Some(candidates[calls[s].id])

-----------------------------------------------------------------------------
(* Syncs called after a sync that is still in flight *)

\* A candidate exists, the service is initialized, nothing is in the index,
\* and an upsertCandidate of the candidate, called in the first slot, has read
\* the row and awaits its embedding and upsert.
ConvergeInit ==
    /\ candidates \in [FirstIds(CandIds, 1) ->
                          UNION {CandidateRows(id) : id \in Range(CandIds)}]
    /\ \A id \in DOMAIN candidates : candidates[id] \in CandidateRows(id)
    /\ jobPositions = <<>>
    /\ issued = DOMAIN candidates
    /\ candidatesCollection = TRUE
    /\ jobsCollection = TRUE
    /\ chromaCandidates = <<>>
    /\ chromaJobs = <<>>
    /\ renderedFrom = <<>>
    /\ calls = [s \in 1..RaceCalls |->
                  IF s = FirstSlot
                  THEN LET p == PrepareCandidate(CandIds[1], TRUE)
                       IN  [op |-> "upsertCandidate", pc |-> "upsert",
                            id |-> CandIds[1], error |-> "", log |-> p.log,
                            pending |-> p]
                  ELSE Idle]

\* The first slot only finishes its call; every call of another slot, a
\* syncOne or a syncAll, is therefore made after the call of the first slot.
ConvergeNext ==
    \/ UpdateCandidate
    \/ UpsertCandidateWrite(FirstSlot)
    \/ \E s \in DOMAIN calls \ {FirstSlot} :
          \/ \E id \in DOMAIN candidates : UpsertCandidateCall(s, id)
          \/ UpsertCandidateWrite(s)
          \/ SyncAllCandidatesCall(s)
          \/ SyncAllCandidatesLoop(s)
          \/ SyncAllCandidatesWrite(s)

ConvergeSpec == ConvergeInit /\ [][ConvergeNext]_vars

\* C21: a sync called earlier never overwrites the result of a sync called
\* later: when the upsert of the call of the first slot is applied, the entry
\* it replaces, written by a syncOne or a syncAll called after it, was
\* rendered from the same row as the one the first call had read.
C21_EarlierSyncNeverOverwritesLater ==
    (Returned(FirstSlot, "upsertCandidate") /\ calls[FirstSlot].error = "")
    => \/ calls[FirstSlot].beforeRow = None
       \/ calls[FirstSlot].beforeRow = Some(calls[FirstSlot].row)

-----------------------------------------------------------------------------
(* Failures of the embedding request *)

Last(seq) == seq[Len(seq)]

\* C22: when the embedding request of a syncOne, of an iteration of a syncAll
\* or of a match fails, the call returns that error, the embedding request is
\* the last request it made (no upsert, no query), both collections are as
\* before and a match has no results; no stored vector and no query vector
\* is anything but the embedding of its own text.
C22_EmbeddingFailurePropagates ==
    [][ /\ \A s \in DOMAIN calls :
              (/\ calls'[s] # calls[s]
               /\ calls'[s].pc = "done"
               /\ calls'[s].error = EmbeddingError)
              => /\ Last(calls'[s].log) = "openai"
                 /\ calls'[s].op \in {"upsertCandidate", "upsertJob"}
                    => "chroma.upsert" \notin Range(calls'[s].log)
                 /\ "chroma.query" \notin Range(calls'[s].log)
                 /\ UNCHANGED <<chromaCandidates, chromaJobs>>
                 /\ calls'[s].op \in {"findMatchingJobs", "findMatchingCandidates"}
                    => calls'[s].matches = <<>>
        /\ \A id \in DOMAIN candidates :
              candidatesCollection =>
                 /\ PrepareCandidate(id, FALSE).error = EmbeddingError
                 /\ "embedding" \notin DOMAIN PrepareCandidate(id, FALSE)
        /\ \A id \in DOMAIN jobPositions :
              jobsCollection =>
                 /\ PrepareJob(id, FALSE).error = EmbeddingError
                 /\ "embedding" \notin DOMAIN PrepareJob(id, FALSE)
        /\ \A id \in DOMAIN chromaCandidates' :
              chromaCandidates'[id].embedding = Embedding(chromaCandidates'[id].document)
        /\ \A id \in DOMAIN chromaJobs' :
              chromaJobs'[id].embedding = Embedding(chromaJobs'[id].document)
        /\ \A s \in DOMAIN calls :
              calls'[s].pc = "query" => calls'[s].embedding = Embedding(calls'[s].text)
      ]_vars

\* C22 witness: a syncOne of a candidate that had an entry has returned the
\* error of the embedding request.
C22_Witness ==
    \E s \in DOMAIN calls :
       /\ Returned(s, "upsertCandidate")
       /\ calls[s].error = EmbeddingError
       /\ calls[s].id \in DOMAIN chromaCandidates

-----------------------------------------------------------------------------
(* The match routes: id parameter, query string, handler *)

\* IdParamSchema: the ids of the model stand for the strings that are UUIDs
IsUuid(id) == id \in Range(AllIds)

\* validateParams answers 400 and the handler is not run
ValidationFailed(op, id) ==
    [op |-> op, pc |-> "done", id |-> id,
     error |-> "Parameter validation failed", log |-> <<>>, status |-> 400]

\* `limit = '10'` and parseInt(limit)
LimitOf(query) ==
    ParseInt(IF query.limit = None THEN ToString(DefaultLimit) ELSE TheValue(query.limit))

\* `if (x) filters.y = parseInt(x)`
ParsedIfTruthy(param) ==
    IF TruthyString(param) THEN Some(ParseInt(TheValue(param))) ELSE None

\* findMatchingJobs handler, "Build filters"
JobFiltersOf(query) ==
    [location |-> IF TruthyString(query.location) THEN query.location ELSE None,
     remoteOk |-> IF query.remote_ok # None
                  THEN Some(TheValue(query.remote_ok) = "true") ELSE None,
     experienceLevel |-> IF TruthyString(query.experience_level)
                         THEN query.experience_level ELSE None,
     employmentType |-> IF TruthyString(query.employment_type)
                        THEN query.employment_type ELSE None,
     salaryMin |-> ParsedIfTruthy(query.salary_min),
     salaryMax |-> ParsedIfTruthy(query.salary_max)]

\* findMatchingCandidates handler, "Build filters"
CandidateFiltersOf(query) ==
    [location |-> IF TruthyString(query.location) THEN query.location ELSE None,
     availability |-> IF TruthyString(query.availability)
                      THEN query.availability ELSE None,
     minExperience |-> ParsedIfTruthy(query.min_experience),
     maxExperience |-> ParsedIfTruthy(query.max_experience),
     maxSalaryExpectation |-> ParsedIfTruthy(query.max_salary_expectation)]

\* GET /candidates/:id/jobs, up to the first await of the service method
findMatchingJobsHandler(s, id, query) ==
    IF ~IsUuid(id)
    THEN /\ Free(s)
         /\ calls' = Settle(s, ValidationFailed("findMatchingJobs", id))
         /\ UNCHANGED <<store, handles, index>>
    ELSE findMatchingJobsCall(s, id, LimitOf(query), JobFiltersOf(query))

\* GET /jobs/:id/candidates, up to the first await of the service method
findMatchingCandidatesHandler(s, id, query) ==
    IF ~IsUuid(id)
    THEN /\ Free(s)
         /\ calls' = Settle(s, ValidationFailed("findMatchingCandidates", id))
         /\ UNCHANGED <<store, handles, index>>
    ELSE findMatchingCandidatesCall(s, id, LimitOf(query), CandidateFiltersOf(query))

\* Requests: ids that are UUIDs and one that is not; query values that are
\* numbers and some that are not
MalformedId == "not-a-uuid"

JobQueries ==
    [limit : {None, Some("2"), Some("abc")},
     location : {None}, remote_ok : {None, Some("true")},
     experience_level : {None}, employment_type : {None},
     salary_min : {None, Some("70000"), Some("high")},
     salary_max : {None, Some("90000")}]

CandidateQueries ==
    [limit : {None, Some("abc")},
     location : {None}, availability : {None},
     min_experience : {None, Some("3"), Some("three")},
     max_experience : {None, Some("6")},
     max_salary_expectation : {None, Some("100000")}]

\* The handlers run their own initialize first, and go on whether it throws
\* or not.
RouteNext ==
    \/ Initialize
    \/ \E id \in DOMAIN QueryCandidates \cup {MalformedId}, query \in JobQueries :
          findMatchingJobsHandler(FirstSlot, id, query)
    \/ findMatchingJobsQuery(FirstSlot, FALSE)
    \/ \E id \in DOMAIN QueryJobs \cup {MalformedId}, query \in CandidateQueries :
          findMatchingCandidatesHandler(FirstSlot, id, query)
    \/ findMatchingCandidatesQuery(FirstSlot, FALSE)

RouteSpec == QueryInit /\ [][RouteNext]_vars

\* The numeric filters of a call that hold NaN.
NaNFilters(filters) ==
    {k \in DOMAIN filters \cap {"salaryMin", "salaryMax", "minExperience",
                                "maxExperience", "maxSalaryExpectation"} :
        filters[k] = Some(NaN)}

\* C23: a match request whose id is not a UUID, or whose limit, salary bound
\* or experience bound is not a number, is answered with a validation error
\* and has made no request to the relational store, the embedding model or
\* the index.
C23_MalformedRequestRejected ==
    \A s \in DOMAIN calls :
       (/\ calls[s].pc # "idle"
        /\ \/ ~IsUuid(calls[s].id)
           \/ ("limit" \in DOMAIN calls[s]
               /\ (calls[s].limit = NaN \/ NaNFilters(calls[s].filters) # {})))
       => /\ calls[s].pc = "done"
          /\ calls[s].error = "Parameter validation failed"
          /\ calls[s].log = <<>>

-----------------------------------------------------------------------------
(* GET /health *)

\* What getMatchingHealth answers: 200 online, or 503 offline with the
\* message of the throw. requests is the number of getOrCreateCollection
\* requests initialize has made.
HealthResponse(error, requests) ==
    [op |-> "getMatchingHealth", pc |-> "done", id |-> "", error |-> error,
     log |-> [i \in 1..requests |-> "chroma.getOrCreateCollection"],
     status |-> IF error = "" THEN 200 ELSE 503,
     health |-> IF error = "" THEN "online" ELSE "offline"]

\* A health check that answers 200 whatever initialize does.
getMatchingHealthOptimistic(s) ==
    /\ Free(s)
    /\ \E n \in 0..2 :
          /\ candidatesCollection' = (candidatesCollection \/ n >= 1)
          /\ jobsCollection' = (jobsCollection \/ n = 2)
          /\ calls' = Settle(s, HealthResponse("", IF n < 2 THEN n + 1 ELSE n))
    /\ UNCHANGED <<store, index>>

\* getMatchingHealth: initialize and nothing else; n of its two requests
\* succeed before one throws (n = 2: none throws).
getMatchingHealth(s) ==
    /\ Free(s)
    /\ \E n \in 0..2 :
          /\ candidatesCollection' = (candidatesCollection \/ n >= 1)
          /\ jobsCollection' = (jobsCollection \/ n = 2)
          /\ calls' = Settle(s, HealthResponse(IF n < 2 THEN ChromaError ELSE "",
                                               IF n < 2 THEN n + 1 ELSE n))
    /\ UNCHANGED <<store, index>>

HealthNext == Next \/ \E s \in Slots : getMatchingHealth(s)

HealthSpec == Init /\ [][HealthNext]_vars

\* C24: a health check makes getOrCreateCollection requests only, at most the
\* two of one initialize, and no embedding request; it changes neither the
\* tables nor the collections; it answers 503 offline exactly when a request
\* of its initialize threw, and 200 online exactly when both succeeded, in
\* which case both handles are set.
C24_HealthIsInitializeOnly ==
    [][ \A s \in Slots :
           Called(s, "getMatchingHealth")
           => /\ calls'[s].pc = "done"
              /\ Range(calls'[s].log) \subseteq {"chroma.getOrCreateCollection"}
              /\ Len(calls'[s].log) \in 1..2
              /\ UNCHANGED <<store, index>>
              /\ (calls'[s].status = 503) = (calls'[s].error # "")
              /\ (calls'[s].status = 200) = (calls'[s].error = "")
              /\ calls'[s].error = "" =>
                    /\ Len(calls'[s].log) = 2
                    /\ candidatesCollection' /\ jobsCollection'
              /\ calls'[s].error # "" =>
                    /\ calls'[s].health = "offline"
                    /\ candidatesCollection' =
                          (candidatesCollection \/ Len(calls'[s].log) = 2)
                    /\ jobsCollection' = jobsCollection
      ]_vars

\* C24 witness: a health check has answered 503 while both handles, set by an
\* earlier initialize, are still there.
C24_Witness ==
    \E s \in Slots :
       /\ Returned(s, "getMatchingHealth")
       /\ calls[s].status = 503
       /\ candidatesCollection /\ jobsCollection

-----------------------------------------------------------------------------
(* What a match reports of the rows behind its results *)

-----------------------------------------------------------------------------
(* Salary bounds of matches over rows without a salary *)

\* Matches that filter on salary only; the bounds include 0 and a negative
\* number, which parseInt hands through as they are.
SalaryJobFilterSets ==
    {[NoJobFilters EXCEPT !.salaryMin = a, !.salaryMax = b] :
        a \in {None, Some(1), Some(80000)},
        b \in {None, Some(-1), Some(0), Some(85000)}}

SalaryCandidateFilterSets ==
    {[NoCandidateFilters EXCEPT !.maxSalaryExpectation = a] :
        a \in {None, Some(-1), Some(0), Some(100000)}}

SalaryNext ==
    \/ \E id \in DOMAIN QueryCandidates, filters \in SalaryJobFilterSets :
          findMatchingJobsCall(FirstSlot, id, DefaultLimit, filters)
    \/ findMatchingJobsQuery(FirstSlot, FALSE)
    \/ \E id \in DOMAIN QueryJobs, filters \in SalaryCandidateFilterSets :
          findMatchingCandidatesCall(FirstSlot, id, DefaultLimit, filters)
    \/ findMatchingCandidatesQuery(FirstSlot, FALSE)

SalarySpec == QueryInit /\ [][SalaryNext]_vars

\* The ids a returned match lists.
MatchedIds(c) == {c.matches[i].id : i \in DOMAIN c.matches}

\* An absent salary is stored as 0 and reported as absent, with what follows
\* for the salary filters; maxima is the set of maximum bounds for which a row
\* without the salary is said to pass.
AbsentNumeric(maxima) ==
    /\ \A id \in DOMAIN chromaJobs :
          /\ renderedFrom[id].salary_min = None => chromaJobs[id].metadata.salaryMin = 0
          /\ renderedFrom[id].salary_max = None => chromaJobs[id].metadata.salaryMax = 0
    /\ \A id \in DOMAIN chromaCandidates :
          renderedFrom[id].salary_expectation = None
          => chromaCandidates[id].metadata.salaryExpectation = 0
    /\ \A s \in Slots : LET c == calls[s] IN
          /\ (Returned(s, "findMatchingJobs") /\ c.error = "") =>
                /\ \A i \in DOMAIN c.matches :
                      LET row == renderedFrom[c.matches[i].id] IN
                      /\ row.salary_min = None => c.matches[i].job.salaryMin = None
                      /\ row.salary_max = None => c.matches[i].job.salaryMax = None
                /\ \A id \in DOMAIN chromaJobs :
                      /\ (/\ renderedFrom[id].salary_max = None
                          /\ c.filters.salaryMin # None
                          /\ TheValue(c.filters.salaryMin) > 0)
                         => id \notin MatchedIds(c)
                      /\ (/\ renderedFrom[id].salary_min = None
                          /\ c.filters.salaryMax # None
                          /\ TheValue(c.filters.salaryMax) \in maxima
                          /\ \/ c.filters.salaryMin = None
                             \/ chromaJobs[id].metadata.salaryMax
                                   >= TheValue(c.filters.salaryMin))
                         => id \in MatchedIds(c)
          /\ (Returned(s, "findMatchingCandidates") /\ c.error = "") =>
                /\ \A i \in DOMAIN c.matches :
                      renderedFrom[c.matches[i].id].salary_expectation = None
                      => c.matches[i].candidate.salaryExpectation = None
                /\ \A id \in DOMAIN chromaCandidates :
                      (/\ renderedFrom[id].salary_expectation = None
                       /\ c.filters.maxSalaryExpectation # None
                       /\ TheValue(c.filters.maxSalaryExpectation) \in maxima)
                      => id \in MatchedIds(c)

\* C26 (as claimed): an absent optional number is stored as 0 and reported
\* absent again; a job without salary_max is never returned under a positive
\* minimum-salary filter; a job without salary_min passes every
\* maximum-salary filter and a candidate without salary expectation passes
\* every maximum-expectation filter.
C26_AbsentPassesEveryMaximum == AbsentNumeric(Int)

\* C26 (amended): the same, where the maximum filters that a row without the
\* salary passes are those whose bound is not negative.
C26_AbsentPassesNonNegativeMaximum == AbsentNumeric(Nat)

\* C26 witness: a match with maximum salary 0 has returned a job that has no
\* salary_min, and reports its salaryMin as absent.
C26_Witness ==
    \E s \in Slots : LET c == calls[s] IN
       /\ Returned(s, "findMatchingJobs") /\ c.error = ""
       /\ c.filters.salaryMax = Some(0)
       /\ \E i \in DOMAIN c.matches :
             /\ renderedFrom[c.matches[i].id].salary_min = None
             /\ c.matches[i].metadata.salaryMin = 0
             /\ c.matches[i].job.salaryMin = None

-----------------------------------------------------------------------------
(* POST /sync/candidates/:id and /sync/jobs/:id: what the caller is told *)

\* syncCandidate / syncJob handler: the response for the outcome of the
\* upsert; development is whether NODE_ENV is 'development'.
SyncResponse(id, error, development) ==
    IF error = ""
    THEN [status |-> 200, success |-> TRUE,
          message |-> "synced to matching system successfully",
          id |-> Some(id), error |-> None]
    ELSE [status |-> 500, success |-> FALSE,
          message |-> "Internal Server Error",
          id |-> None,
          error |-> IF development THEN Some(error) ELSE None]

\* C27: whatever the environment, the response to a sync-one whose record is
\* missing from the relational store differs from the response to one that
\* failed on the embedding model or on the index, and the response to a
\* failed sync-one names the id.
C27_SyncOutcomeDistinguishes ==
    \A s \in Slots : LET c == calls[s] IN
       (c.pc = "done" /\ c.op \in {"upsertCandidate", "upsertJob"} /\ c.error # "")
       => \A development \in BOOLEAN :
             LET response == SyncResponse(c.id, c.error, development) IN
             /\ c.error \in {NotInStoreMessage("Candidate", c.id),
                             NotInStoreMessage("Job", c.id)}
                => /\ response # SyncResponse(c.id, EmbeddingError, development)
                   /\ response # SyncResponse(c.id, ChromaError, development)
             /\ \/ response.id = Some(c.id)
                \/ /\ response.error # None
                   /\ Includes(TheValue(response.error), c.id)

-----------------------------------------------------------------------------
(* Order of the requests of a match *)

\* The collection a match reads its own document from.
OwnCollection(op) ==
    IF op = "findMatchingJobs" THEN chromaCandidates ELSE chromaJobs

MatchOps == {"findMatchingJobs", "findMatchingCandidates"}

\* C28: an initialized match requests get, then the embedding, then query, in
\* this order; the text it embeds is the document the get of this call
\* returned and the query vector is the embedding of that text; when the get
\* finds no document the call returns at once, after the get alone, with an
\* error, no embedding request and no query.
C28_GetEmbedQuery ==
    [][ \A s \in DOMAIN calls :
           /\ (\E op \in MatchOps : Called(s, op))
              /\ candidatesCollection /\ jobsCollection
              => LET c == calls'[s]
                     coll == OwnCollection(c.op)
                 IN  IF c.id \notin DOMAIN coll
                     THEN /\ c.pc = "done"
                          /\ c.error # ""
                          /\ c.log = <<"chroma.get">>
                          /\ c.matches = <<>>
                     ELSE /\ c.log \in {<<"chroma.get">>, <<"chroma.get", "openai">>}
                          /\ c.pc = "done" => c.error # ""
                          /\ c.pc # "done" =>
                                /\ c.pc = "query"
                                /\ c.log = <<"chroma.get", "openai">>
                                /\ c.text = coll[c.id].document
                                /\ c.embedding = Embedding(coll[c.id].document)
           /\ (calls[s].pc = "query" /\ calls'[s] # calls[s])
              => /\ calls'[s].pc = "done"
                 /\ calls'[s].op = calls[s].op /\ calls'[s].id = calls[s].id
                 /\ calls'[s].log = <<"chroma.get", "openai", "chroma.query">>
      ]_vars

\* C28 witness: a match has returned results after its three requests while
\* the collection of its own document held another entry, with another
\* document.
C28_Witness ==
    \E s \in DOMAIN calls : LET c == calls[s] IN
       /\ c.pc = "done" /\ c.op \in MatchOps /\ c.error = ""
       /\ c.log = <<"chroma.get", "openai", "chroma.query">>
       /\ c.id \in DOMAIN OwnCollection(c.op)
       /\ \E x \in DOMAIN OwnCollection(c.op) :
             OwnCollection(c.op)[x].document # OwnCollection(c.op)[c.id].document

-----------------------------------------------------------------------------
(* Entries of the index, each taken by itself *)

\* C29: every entry of the index is the rendering of one row: there is a row
\* of the table (for a candidate, a row of the entry's id, which its email
\* carries) of which the document is the canonical text and the metadata the
\* extracted metadata, and the vector is the embedding of the entry's own
\* document; whether or not that row is the one the table holds now.
C29_EntriesSelfConsistent ==
    /\ \A id \in DOMAIN chromaCandidates :
          /\ chromaCandidates[id].embedding = Embedding(chromaCandidates[id].document)
          /\ \E row \in CandidateRows(id) :
                /\ chromaCandidates[id].document =
                      createCandidateText(CandidateVectorOf(id, row))
                /\ chromaCandidates[id].metadata = CandidateMetadata(row)
    /\ \A id \in DOMAIN chromaJobs :
          /\ chromaJobs[id].embedding = Embedding(chromaJobs[id].document)
          /\ \E row \in JobRows :
                /\ chromaJobs[id].document = createJobText(JobVectorOf(id, row))
                /\ chromaJobs[id].metadata = JobMetadata(row)

\* C29 witness: the index holds a job entry and a candidate entry, the latter
\* rendered from a row that the table no longer holds.
C29_Witness ==
    /\ chromaJobs # <<>>
    /\ \E id \in DOMAIN chromaCandidates \cap DOMAIN candidates :
          chromaCandidates[id].metadata # CandidateMetadata(candidates[id])

-----------------------------------------------------------------------------
(* Operations on a service that is not initialized *)

\* Whether a handle that the operation uses is unset.
HandleUnset(op) ==
    CASE op \in {"upsertCandidate", "syncAllCandidates", "removeCandidate"} ->
            ~candidatesCollection
      [] op \in {"upsertJob", "syncAllJobs", "removeJob"} -> ~jobsCollection
      [] op \in MatchOps -> ~candidatesCollection \/ ~jobsCollection

ServiceOps ==
    {"upsertCandidate", "syncAllCandidates", "removeCandidate",
     "upsertJob", "syncAllJobs", "removeJob"} \cup MatchOps

\* C30: a service operation called while a handle it uses is unset returns a
\* 'not initialized' error at once, having made no relational read, no
\* embedding request and no index request; and no step, a failing initialize
\* included, unsets a handle that is set.
C30_UninitializedFailsFirst ==
    [][ /\ \A s \in Slots : \A op \in ServiceOps :
              (Called(s, op) /\ HandleUnset(op))
              => /\ calls'[s].pc = "done"
                 /\ Includes(calls'[s].error, "not initialized")
                 /\ calls'[s].log = <<>>
        /\ candidatesCollection => candidatesCollection'
        /\ jobsCollection => jobsCollection'
      ]_vars

====
